---- MODULE Spec2Model ----
(***************************************************************************)
(* Model of the lazy-iterator wrapper Iter (src/mod.ts) over an array      *)
(* source.  A wrapper owns one cursor; every operation is defined by       *)
(* repeated calls of next().  Each method of Iter is an operator computed  *)
(* the way the method computes it, and each action is one call of a        *)
(* method on a wrapper, recorded in ret.                                   *)
(*                                                                         *)
(* JavaScript values are encoded as integers: the numbers 1..MaxVal are    *)
(* themselves, null and undefined are two reserved integers outside the    *)
(* range of every number the program computes, and a two-element array     *)
(* [a, b] is the integer Pair(a, b).  A predicate p is the set of values   *)
(* it is true of; a closure passed to fold/tryFold is a record interpreted *)
(* by Call, a comparator a record interpreted by Compare.                  *)
(***************************************************************************)
EXTENDS Integers, Sequences, FiniteSets, TLC

MaxLen == 3
MaxVal == 1
MaxIters == 2
MaxIndex == 4
MaxOther == 2
MaxInt == 3
MaxStop == 8
MaxStep == 2

Null == -100
Undefined == -200
True == -300

\* No generator: range has not been called.
NoGen == [state |-> "none"]

\* The values an array element can take: numbers, and null.
Values == (1..MaxVal) \cup {Null}

\* Every array of at most MaxLen elements.
Arrays == UNION {[1..n -> Values] : n \in 0..MaxLen}

\* The arrays a comparing method is handed: at most MaxOther elements.
Others == UNION {[1..n -> Values] : n \in 0..MaxOther}

\* Every array of at most MaxLen integers of 1..MaxInt.
IntArrays == UNION {[1..n -> 1..MaxInt] : n \in 0..MaxLen}

\* The numbers range is called with as start and stop, and as step.
Stops == -1..MaxStop
Steps == -1..MaxStep

\* The argument lists of range's overloads: (len), (stop, true),
\* (start, stop), (start, stop, true), (start, stop, step) and
\* (start, stop, step, true).
RangeArgs ==
    {<<a, b, Undefined, Undefined>> : a \in Stops, b \in {Undefined, True}}
    \cup {<<a, b, c, Undefined>> : a \in Stops, b \in Stops, c \in {Undefined, True}}
    \cup {<<a, b, c, d>> : a \in Stops, b \in Stops, c \in Steps, d \in {Undefined, True}}

\* The most values a generator is pulled for: every range of RangeArgs that
\* ends has fewer.
MaxYield == MaxStop + 3

\* A predicate is the set of the values it is true of.
Preds == SUBSET Values

\* The initial accumulators fold and tryFold are called with.
Inits == {<<>>, <<MaxVal>>}

\* src   : the array the first wrapper was built over
\* pred  : the predicate the caller of this run passes: p of find, all, any
\*         and filter, the values the tryFold closure fails on, the values
\*         the findMap function is defined on
\* heap  : pos, the index of the array's iterator; iters, the wrappers built
\*         so far (iters[1] is new Iter(src)), each with the variables its
\*         cursor's closure holds; ended, the wrappers whose next() has
\*         reported done at least once; trace, the next() calls and the
\*         invocations of a derived wrapper's function made by the last call
\* ret   : the last call made and what it returned
\* log   : got, the values next() calls on iters[1] have yielded, kept while
\*         direct holds: no other call has been made
\*         (under SpecSiblings: the <<wrapper, value>> of every yield)
\* gen   : the generator object the last call of range returned, NoGen
\*         before any
VARIABLES src, pred, heap, ret, log, gen

vars == <<src, pred, heap, ret, log, gen>>

\* option.ts: some(value) is value !== null.
some(value) == value # Null

\* ok with the test inverted.
okInverted(result) == ~result.success

\* result.ts: ok(result) is result.success.
ok(result) == result.success

Ok(v) == [success |-> TRUE, value |-> v]

Err(v) == [success |-> FALSE, value |-> v]

\* A caller's predicate p applied to v.
P(p, v) == v \in p

\* A caller's function returning an Option, in the manner of parseIntegral:
\* a converted value (never v itself) where it is defined, null elsewhere.
F(f, v) == IF v \in f.dom THEN v + 10 ELSE Null

\* The two-element array [a, b] as one integer, and its elements [0] and [1].
\* a and b range over numbers from Undefined up to PairSpan + Undefined - 1.
PairSpan == 1000

PairBase == 1000000

Pair(a, b) == PairBase + (a - Undefined) * PairSpan + (b - Undefined)

Fst(x) == ((x - PairBase) \div PairSpan) + Undefined

Snd(x) == ((x - PairBase) % PairSpan) + Undefined

\* A function g handed to map, applied to v: a caller's function, or the
\* projection closure of maxByKey and minByKey, (v) => [f(v), v].
CallMap(g, v) ==
    CASE g.kind = "f" -> F(g.f, v)
      [] g.kind = "keyed" -> Pair(F(g.f, v), v)

\* The number JavaScript's < and > compare v as: null counts as 0.
ToNumber(v) == IF v = Null THEN 0 ELSE v

\* A caller's measure of v, in the manner of the length of the cmpBy test.
Rank(high, v) == IF v \in high THEN 3 ELSE 0

\* The comparator Iter.cmp passes to cmpBy.
strictCmp(lhs, rhs) ==
    IF ToNumber(lhs) < ToNumber(rhs) THEN -1
    ELSE IF ToNumber(lhs) > ToNumber(rhs) THEN 1
    ELSE 0

\* A caller's partial comparator, in the manner of cmpNumbers: null on the
\* pairs it cannot compare, a difference elsewhere.
partialCmp(nan, lhs, rhs) ==
    IF lhs \in nan /\ rhs \in nan
    THEN Null
    ELSE 3 * (ToNumber(lhs) - ToNumber(rhs))

\* A caller's comparator of keys: the descending order.
reverseCmp(lhs, rhs) == strictCmp(rhs, lhs)

\* maxCmp answering 1 when lhs is the lesser.
maxCmpLess(lhs, rhs) == IF ToNumber(lhs) < ToNumber(rhs) THEN 1 ELSE 0

\* maxCmp: 1 when lhs > rhs, 0 otherwise.
maxCmp(lhs, rhs) == IF ToNumber(lhs) > ToNumber(rhs) THEN 1 ELSE 0

\* minCmp: -1 when lhs < rhs, 0 otherwise.
minCmp(lhs, rhs) == IF ToNumber(lhs) < ToNumber(rhs) THEN -1 ELSE 0

RECURSIVE Compare(_, _, _)

\* cmp(lhs, rhs) for a comparator cmp: a caller's comparator by a measure, a
\* caller's partial comparator, the comparator of Iter.cmp, a caller's
\* comparator of keys, maxCmp, minCmp, or the comparator maxByKey and
\* minByKey pass to maxBy and minBy, ([lhs], [rhs]) => cmp(lhs, rhs).
Compare(cmpFn, lhs, rhs) ==
    CASE cmpFn.kind = "rank" -> Rank(cmpFn.high, lhs) - Rank(cmpFn.high, rhs)
      [] cmpFn.kind = "partial" -> partialCmp(cmpFn.nan, lhs, rhs)
      [] cmpFn.kind = "strict" -> strictCmp(lhs, rhs)
      [] cmpFn.kind = "reverse" -> reverseCmp(lhs, rhs)
      [] cmpFn.kind = "maxCmp" -> maxCmp(lhs, rhs)
      [] cmpFn.kind = "minCmp" -> minCmp(lhs, rhs)
      [] cmpFn.kind = "keyed" -> Compare(cmpFn.cmp, Fst(lhs), Fst(rhs))

\* eq(lhs, rhs) for an identity function eq: a caller's, in the manner of
\* the eqBy test, or the strict equality of Iter.eq.
Equal(eqFn, lhs, rhs) ==
    CASE eqFn.kind = "rank" -> Rank(eqFn.high, lhs) = Rank(eqFn.high, rhs)
      [] eqFn.kind = "strict" -> lhs = rhs

\* A caller's f for fold: (acc, v) => acc followed by v.
append(acc, v) == Append(acc, v)

\* A caller's f for tryFold, in the manner of the tryFold test: failure
\* carrying v on the values of failOn, success of the accumulation elsewhere.
tryAppend(failOn, acc, v) ==
    IF v \in failOn THEN Err(v) ELSE Ok(Append(acc, v))

\* The closure find passes to tryFold.
findClosure(p, acc, value) ==
    IF P(p, value) THEN Err(value) ELSE Ok(Null)

\* The closure findMap passes to tryFold.
findMapClosure(f, acc, v) ==
    LET value == F(f, v)
    IN  IF some(value) THEN Err(value) ELSE Ok(Null)

\* The closure all passes to tryFold.
allClosure(p, acc, v) == [success |-> P(p, v), value |-> Undefined]

\* The closure any passes to tryFold.
anyClosure(p, acc, v) == [success |-> ~P(p, v), value |-> Undefined]

\* maxBy taking a later element that compares equal to the best so far.
maxByClosureLatest(cmpFn, max, v) ==
    IF Compare(cmpFn, v, max) >= 0 THEN v ELSE max

\* The closure maxBy passes to fold1.
maxByClosure(cmpFn, max, v) ==
    IF Compare(cmpFn, v, max) > 0 THEN v ELSE max

\* The closure minBy passes to fold1.
minByClosure(cmpFn, min, v) ==
    IF Compare(cmpFn, v, min) < 0 THEN v ELSE min

\* The closure count passes to fold: (acc) => acc + 1.
countClosure(acc) == acc + 1

\* A caller's (acc, v) => 2 * acc + v, handed to fold1.
double(acc, v) == 2 * ToNumber(acc) + ToNumber(v)

\* f(acc, v) for a closure f handed to fold or tryFold.
Call(f, acc, v) ==
    CASE f.kind = "append" -> append(acc, v)
      [] f.kind = "tryAppend" -> tryAppend(f.failOn, acc, v)
      [] f.kind = "find" -> findClosure(f.p, acc, v)
      [] f.kind = "findMap" -> findMapClosure(f.f, acc, v)
      [] f.kind = "all" -> allClosure(f.p, acc, v)
      [] f.kind = "any" -> anyClosure(f.p, acc, v)
      [] f.kind = "maxBy" -> maxByClosure(f.cmp, acc, v)
      [] f.kind = "minBy" -> minByClosure(f.cmp, acc, v)
      [] f.kind = "count" -> countClosure(acc)
      [] f.kind = "double" -> double(acc, v)

\* The array's own iterator: the element at the index and the index advanced,
\* or done once the index has reached the length.
ArrayNext(a, h) ==
    IF h.pos < Len(a)
    THEN [value |-> a[h.pos + 1], done |-> FALSE, h |-> [h EXCEPT !.pos = h.pos + 1]]
    ELSE [value |-> Undefined, done |-> TRUE, h |-> h]

\* Symbol.iterator handing out a fresh cursor over the source.
SymbolIteratorRestarts(w, h) == [iter |-> w, h |-> [h EXCEPT !.pos = 0]]

\* Iter[Symbol.iterator]: returns this; nothing is pulled.
SymbolIterator(w, h) == [iter |-> w, h |-> h]

RECURSIVE next(_, _)
RECURSIVE tryFoldLoop(_, _, _, _, _)

\* Iter.tryFold on wrapper w, one pass of the for loop with n the result
\* of this.next().  calls lists the (acc, v) pairs f has been invoked with.
tryFoldStep(w, n, init, f, calls) ==
    IF n.done
    THEN [res |-> Ok(init), h |-> n.h, calls |-> calls]
    ELSE LET res == Call(f, init, n.value)
             cs == Append(calls, <<init, n.value>>)
         IN  IF ok(res)
             THEN tryFoldLoop(w, n.h, res.value, f, cs)
             ELSE [res |-> res, h |-> n.h, calls |-> cs]

\* Iter.tryFold on wrapper w: the for loop, one call of this.next() per
\* unfolding.
tryFoldLoop(w, h, init, f, calls) == tryFoldStep(w, next(w, h), init, f, calls)

RECURSIVE spreadLoop(_, _, _)

\* for..of and spread over a wrapper, one pass with n the pulled result.
spreadStep(w, n, got) ==
    IF n.done
    THEN [value |-> got, h |-> n.h]
    ELSE spreadLoop(w, n.h, Append(got, n.value))

\* for..of and spread over a wrapper: the cursor is pulled until it reports
\* done and the values are collected.
spreadLoop(w, h, got) == spreadStep(w, next(w, h), got)

\* tryFold that goes on pulling to the end after f has failed.
tryFoldDrains(w, h, init, f) ==
    LET r == tryFoldLoop(w, h, init, f, <<>>)
    IN  IF ok(r.res) THEN r ELSE [r EXCEPT !.h = spreadLoop(w, r.h, <<>>).h]

tryFold(w, h, init, f) == tryFoldLoop(w, h, init, f, <<>>)

\* find with the predicate negated, as any's closure has it.
findNegated(w, h, p) ==
    LET r == tryFold(w, h, Null, [kind |-> "find", p |-> Values \ p])
    IN  [value |-> r.res.value, h |-> r.h, calls |-> r.calls]

\* The .value of the Result tryFold returned, as find and findMap take it.
failure(r) == [value |-> r.res.value, h |-> r.h, calls |-> r.calls]

\* Iter.find: tryFold with the found element carried as the failure.
find(w, h, p) == failure(tryFold(w, h, Null, [kind |-> "find", p |-> p]))

\* Iter.findMap.
findMap(w, h, f) == failure(tryFold(w, h, Null, [kind |-> "findMap", f |-> f]))

\* all computed without the short circuit: every element is pulled.
allDrains(w, h, p) ==
    LET r == tryFold(w, h, Undefined, [kind |-> "all", p |-> p])
    IN  [value |-> r.res.success, h |-> spreadLoop(w, r.h, <<>>).h, calls |-> r.calls]

\* The .success of the Result tryFold returned, as all takes it.
succeeded(r) == [value |-> r.res.success, h |-> r.h, calls |-> r.calls]

\* Iter.all.
all(w, h, p) == succeeded(tryFold(w, h, Undefined, [kind |-> "all", p |-> p]))

\* any without the negation of tryFold's success.
anyNotNegated(w, h, p) ==
    LET r == tryFold(w, h, Undefined, [kind |-> "any", p |-> p])
    IN  [value |-> r.res.success, h |-> r.h, calls |-> r.calls]

\* The negated .success of the Result tryFold returned, as any takes it.
failed(r) == [value |-> ~r.res.success, h |-> r.h, calls |-> r.calls]

\* Iter.any.
any(w, h, p) == failed(tryFold(w, h, Undefined, [kind |-> "any", p |-> p]))

\* What filter's next closure makes of find's result: { value } when it is
\* a present value, { value, done: true } otherwise.
filterResult(r) ==
    IF some(r.value)
    THEN [value |-> r.value, done |-> FALSE, h |-> r.h]
    ELSE [value |-> r.value, done |-> TRUE, h |-> r.h]

\* The next closure of the wrapper filter(p) returns.
filterNext(parent, h, p) == filterResult(find(parent, h, p))

\* What filterMap's next closure makes of findMap's result: { value } when
\* it is a present value, { value, done: true } otherwise.
filterMapResult(r) ==
    IF some(r.value)
    THEN [value |-> r.value, done |-> FALSE, h |-> r.h]
    ELSE [value |-> r.value, done |-> TRUE, h |-> r.h]

\* filterMap's next closure yielding the elements f is present on, as they
\* are, in place of what f makes of them.
filterMapNextUnmapped(parent, h, f) == filterResult(find(parent, h, f.dom))

\* The next closure of the wrapper filterMap(f) returns.
filterMapNext(parent, h, f) == filterMapResult(findMap(parent, h, f))

\* An invocation of the function of derived wrapper w on v is noted in trace.
invoked(w, v, h) == [h EXCEPT !.trace = Append(@, [e |-> "f", w |-> w, v |-> v])]

\* map's next closure applying f to the end signal as well.
mapResultOnEnd(w, n, f) ==
    [value |-> CallMap(f, n.value), done |-> n.done, h |-> invoked(w, n.value, n.h)]

\* What map's next closure makes of the parent's result n: the end as it
\* is, { value: f(value) } otherwise.
mapResult(w, n, f) ==
    IF n.done
    THEN [value |-> n.value, done |-> n.done, h |-> n.h]
    ELSE [value |-> CallMap(f, n.value), done |-> FALSE, h |-> invoked(w, n.value, n.h)]

\* The next closure of the wrapper w that map(f) returns.
mapNext(w, h) == mapResult(w, next(h.iters[w].parent, h), h.iters[w].arg)

\* enumerate's next closure counting from 1: [++index, value].
enumerateResultFromOne(w, n) ==
    [value |-> Pair(n.h.iters[w].arg + 1, n.value), done |-> n.done,
     h |-> [n.h EXCEPT !.iters[w].arg = @ + 1]]

\* enumerate's next closure pairing the value with its position in the
\* source.
enumerateResultByPosition(w, n) ==
    [value |-> Pair(n.h.pos - 1, n.value), done |-> n.done,
     h |-> [n.h EXCEPT !.iters[w].arg = @ + 1]]

\* What enumerate's next closure makes of the parent's result n:
\* { value: [index++, value], done }.
enumerateResult(w, n) ==
    [value |-> Pair(n.h.iters[w].arg, n.value), done |-> n.done,
     h |-> [n.h EXCEPT !.iters[w].arg = @ + 1]]

\* The next closure of the wrapper w that enumerate() returns; the index it
\* holds is the wrapper's arg.
enumerateNext(w, h) == enumerateResult(w, next(h.iters[w].parent, h))

\* The iterator of an array handed to a method: the wrapper's arg holds the
\* array and the index.
ownArrayNext(w, h) ==
    LET c == h.iters[w].arg
    IN  IF c.pos < Len(c.a)
        THEN [value |-> c.a[c.pos + 1], done |-> FALSE,
              h |-> [h EXCEPT !.iters[w].arg.pos = @ + 1]]
        ELSE [value |-> Undefined, done |-> TRUE, h |-> h]

\* The cursor wrapper w was built over: the array's iterator, the wrapper it
\* was constructed from, or the next closure of the method that derived it.
iterNext(w, h) ==
    CASE h.iters[w].kind = "array" -> ArrayNext(src, h)
      [] h.iters[w].kind = "iter" -> next(h.iters[w].parent, h)
      [] h.iters[w].kind = "filter" -> filterNext(h.iters[w].parent, h, h.iters[w].arg)
      [] h.iters[w].kind = "filterMap" -> filterMapNext(h.iters[w].parent, h, h.iters[w].arg)
      [] h.iters[w].kind = "map" -> mapNext(w, h)
      [] h.iters[w].kind = "enumerate" -> enumerateNext(w, h)
      [] h.iters[w].kind = "ownArray" -> ownArrayNext(w, h)

\* next pulling the cursor twice and returning the second result.
nextTwice(w, h) == iterNext(w, iterNext(w, h).h)

\* next starting the cursor over once it has reported done.
nextRestarts(w, h) ==
    LET r == iterNext(w, h)
    IN  IF r.done
        THEN [r EXCEPT !.h = [r.h EXCEPT !.pos = 0, !.ended = r.h.ended \cup {w}]]
        ELSE r

\* A done result of wrapper w is noted in ended; the result is unchanged.
noteEnded(w, r) ==
    IF r.done
    THEN [r EXCEPT !.h = [r.h EXCEPT !.ended = r.h.ended \cup {w}]]
    ELSE r

\* A call of next() on wrapper w is noted in trace.
pulled(w, h) == [h EXCEPT !.trace = Append(@, [e |-> "next", w |-> w, v |-> Undefined])]

\* Iter.next: this.iter.next().
next(w, h) == noteEnded(w, iterNext(w, pulled(w, h)))

RECURSIVE foldLoop(_, _, _, _, _)

\* Iter.fold on wrapper w, one pass of the for loop with n the result of
\* this.next().
foldStep(w, n, init, f, calls) ==
    IF n.done
    THEN [value |-> init, h |-> n.h, calls |-> calls]
    ELSE foldLoop(w, n.h, Call(f, init, n.value), f,
                  Append(calls, <<init, n.value>>))

\* Iter.fold on wrapper w: the for loop, one call of this.next() per
\* unfolding.
foldLoop(w, h, init, f, calls) == foldStep(w, next(w, h), init, f, calls)

\* fold starting from an empty accumulator whatever init is.
foldDropsInit(w, h, init, f) == foldLoop(w, h, <<>>, f, <<>>)

fold(w, h, init, f) == foldLoop(w, h, init, f, <<>>)

\* count starting over from the first element of the source.
countRestarts(w, h) == fold(w, [h EXCEPT !.pos = 0], 0, [kind |-> "count"])

\* Iter.count: fold(0, (acc) => acc + 1).
count(w, h) == fold(w, h, 0, [kind |-> "count"])

\* [...it]: the cursor Symbol.iterator returns is pulled until done.
spread(w, h) ==
    LET it == SymbolIterator(w, h)
    IN  spreadLoop(it.iter, it.h, <<>>)

\* it.filter(p): a new wrapper over the closure; nothing is pulled.
filter(w, h, p) ==
    [value |-> Len(h.iters) + 1,
     h |-> [h EXCEPT !.iters = Append(@, [kind |-> "filter", parent |-> w, arg |-> p])]]

\* it.filterMap(f): a new wrapper over the closure; nothing is pulled.
filterMap(w, h, f) ==
    [value |-> Len(h.iters) + 1,
     h |-> [h EXCEPT !.iters = Append(@, [kind |-> "filterMap", parent |-> w, arg |-> f])]]

\* map pulling the first element when the wrapper is derived.
mapEager(w, h, f) ==
    [value |-> Len(h.iters) + 1,
     h |-> [next(w, h).h EXCEPT !.iters = Append(@, [kind |-> "map", parent |-> w, arg |-> f])]]

\* it.map(f): a new wrapper over the closure; nothing is pulled.
map(w, h, f) ==
    [value |-> Len(h.iters) + 1,
     h |-> [h EXCEPT !.iters = Append(@, [kind |-> "map", parent |-> w, arg |-> f])]]

\* it.enumerate(): a new wrapper over the closure, its index 0; nothing is
\* pulled.
enumerate(w, h) ==
    [value |-> Len(h.iters) + 1,
     h |-> [h EXCEPT !.iters = Append(@, [kind |-> "enumerate", parent |-> w, arg |-> 0])]]

\* The constructor giving the new wrapper a cursor of its own, which starts
\* where the given wrapper's cursor stands.
IterCopies(i, h) ==
    [value |-> Len(h.iters) + 1,
     h |-> [h EXCEPT !.iters = Append(@, [kind |-> "ownArray", parent |-> 0,
                                          arg |-> [a |-> src, pos |-> h.pos]])]]

\* Iter.constructor given a wrapper: Symbol.iterator is in it, so the new
\* wrapper's cursor is what the given wrapper's Symbol.iterator returns.
Iter(i, h) ==
    LET it == SymbolIterator(i, h)
    IN  [value |-> Len(h.iters) + 1,
         h |-> [it.h EXCEPT !.iters = Append(@, [kind |-> "iter", parent |-> it.iter, arg |-> {}])]]

\* The wrappers a method built for itself are unreachable once it has
\* returned: r is what it returns, n the number of wrappers there were.
released(n, r) ==
    [r EXCEPT !.h = [r.h EXCEPT !.iters = SubSeq(@, 1, n),
                                !.ended = @ \cap (1..n)]]

\* fold1 folding from null, the first element dropped.
fold1FromNull(w, first, f) ==
    IF first.done
    THEN [value |-> Null, h |-> first.h, calls |-> <<>>]
    ELSE fold(w, first.h, Null, f)

\* Iter.fold1 once this.next() has returned first: null on done, the fold
\* from first.value otherwise.
fold1From(w, first, f) ==
    IF first.done
    THEN [value |-> Null, h |-> first.h, calls |-> <<>>]
    ELSE fold(w, first.h, first.value, f)

\* Iter.fold1.
fold1(w, h, f) == fold1From(w, next(w, h), f)

\* Iter.maxBy.
maxBy(w, h, cmpFn) == fold1(w, h, [kind |-> "maxBy", cmp |-> cmpFn])

\* Iter.max.
max(w, h) == maxBy(w, h, [kind |-> "maxCmp"])

\* Iter.minBy.
minBy(w, h, cmpFn) == fold1(w, h, [kind |-> "minBy", cmp |-> cmpFn])

\* Iter.min.
min(w, h) == minBy(w, h, [kind |-> "minCmp"])

\* maxByKey and minByKey returning the key of what maxBy and minBy gave.
keyedResultKey(r) ==
    [r EXCEPT !.value = IF some(r.value) THEN Fst(r.value) ELSE Null]

\* What maxByKey and minByKey return of res, the pair maxBy and minBy
\* gave: res[1], or null.
keyedResult(r) ==
    [r EXCEPT !.value = IF some(r.value) THEN Snd(r.value) ELSE Null]

\* Iter.maxByKey: maxBy over this.map((v) => [f(v), v]).
maxByKey(w, h, f, cmpFn) ==
    released(Len(h.iters),
             keyedResult(maxBy(Len(h.iters) + 1,
                               map(w, h, [kind |-> "keyed", f |-> f]).h,
                               [kind |-> "keyed", cmp |-> cmpFn])))

\* Iter.minByKey: minBy over this.map((v) => [f(v), v]).
minByKey(w, h, f, cmpFn) ==
    released(Len(h.iters),
             keyedResult(minBy(Len(h.iters) + 1,
                               map(w, h, [kind |-> "keyed", f |-> f]).h,
                               [kind |-> "keyed", cmp |-> cmpFn])))

\* Iter.constructor given an array: the new wrapper's cursor is the array's
\* iterator, at index 0.
IterOfArray(a, h) ==
    [value |-> Len(h.iters) + 1,
     h |-> [h EXCEPT !.iters = Append(@, [kind |-> "ownArray", parent |-> 0,
                                          arg |-> [a |-> a, pos |-> 0]])]]

RECURSIVE cmpByLoop(_, _, _, _, _)

\* cmpBy returning the sign of what the comparator gave.
cmpByStepSign(w, other, lhs, rhs, cmpFn, calls) ==
    IF lhs.done
    THEN [value |-> IF rhs.done THEN 0 ELSE -1, h |-> rhs.h, calls |-> calls]
    ELSE IF rhs.done
         THEN [value |-> 1, h |-> rhs.h, calls |-> calls]
         ELSE LET cmpRes == Compare(cmpFn, lhs.value, rhs.value)
                  cs == Append(calls, <<lhs.value, rhs.value>>)
              IN  IF cmpRes # 0
                  THEN [value |-> IF cmpRes > 0 THEN 1 ELSE -1, h |-> rhs.h, calls |-> cs]
                  ELSE cmpByLoop(w, other, rhs.h, cmpFn, cs)

\* Iter.cmpBy, what one pass of the loop does with lhs and rhs.
cmpByStep(w, other, lhs, rhs, cmpFn, calls) ==
    IF lhs.done
    THEN [value |-> IF rhs.done THEN 0 ELSE -1, h |-> rhs.h, calls |-> calls]
    ELSE IF rhs.done
         THEN [value |-> 1, h |-> rhs.h, calls |-> calls]
         ELSE LET cmpRes == Compare(cmpFn, lhs.value, rhs.value)
                  cs == Append(calls, <<lhs.value, rhs.value>>)
              IN  IF cmpRes # 0
                  THEN [value |-> cmpRes, h |-> rhs.h, calls |-> cs]
                  ELSE cmpByLoop(w, other, rhs.h, cmpFn, cs)

\* cmpBy leaving other where it was once this has ended: other's result is
\* looked at and its pull undone.
cmpByPulledPeeks(w, other, lhs, cmpFn, calls) ==
    IF lhs.done
    THEN cmpByStep(w, other, lhs, [next(other, lhs.h) EXCEPT !.h = lhs.h], cmpFn, calls)
    ELSE cmpByStep(w, other, lhs, next(other, lhs.h), cmpFn, calls)

\* Iter.cmpBy, one pass of the loop: other.next() once this.next() has
\* returned lhs.
cmpByPulled(w, other, lhs, cmpFn, calls) ==
    cmpByStep(w, other, lhs, next(other, lhs.h), cmpFn, calls)

\* Iter.cmpBy on wrapper w: the while loop, one pass per unfolding.
cmpByLoop(w, other, h, cmpFn, calls) ==
    cmpByPulled(w, other, next(w, h), cmpFn, calls)

\* Iter.cmpBy given an array a: other is new Iter(a).
cmpBy(w, h, a, cmpFn) ==
    released(Len(h.iters),
             cmpByLoop(w, Len(h.iters) + 1, IterOfArray(a, h).h, cmpFn, <<>>))

\* Iter.cmp.
cmp(w, h, a) == cmpBy(w, h, a, [kind |-> "strict"])

RECURSIVE eqByLoop(_, _, _, _, _)

\* eqBy holding as soon as this has ended, whatever other has left.
eqByStepPrefix(w, other, lhs, rhs, eqFn, calls) ==
    IF lhs.done
    THEN [value |-> TRUE, h |-> rhs.h, calls |-> calls]
    ELSE IF rhs.done
         THEN [value |-> FALSE, h |-> rhs.h, calls |-> calls]
         ELSE IF ~Equal(eqFn, lhs.value, rhs.value)
              THEN [value |-> FALSE, h |-> rhs.h,
                    calls |-> Append(calls, <<lhs.value, rhs.value>>)]
              ELSE eqByLoop(w, other, rhs.h, eqFn,
                            Append(calls, <<lhs.value, rhs.value>>))

\* Iter.eqBy, what one pass of the loop does with lhs and rhs.
eqByStep(w, other, lhs, rhs, eqFn, calls) ==
    IF lhs.done
    THEN [value |-> rhs.done, h |-> rhs.h, calls |-> calls]
    ELSE IF rhs.done
         THEN [value |-> FALSE, h |-> rhs.h, calls |-> calls]
         ELSE IF ~Equal(eqFn, lhs.value, rhs.value)
              THEN [value |-> FALSE, h |-> rhs.h,
                    calls |-> Append(calls, <<lhs.value, rhs.value>>)]
              ELSE eqByLoop(w, other, rhs.h, eqFn,
                            Append(calls, <<lhs.value, rhs.value>>))

\* Iter.eqBy, one pass of the loop: other.next() once this.next() has
\* returned lhs.
eqByPulled(w, other, lhs, eqFn, calls) ==
    eqByStep(w, other, lhs, next(other, lhs.h), eqFn, calls)

\* Iter.eqBy on wrapper w: the while loop, one pass per unfolding.
eqByLoop(w, other, h, eqFn, calls) ==
    eqByPulled(w, other, next(w, h), eqFn, calls)

\* Iter.eqBy given an array a: other is new Iter(a).
eqBy(w, h, a, eqFn) ==
    released(Len(h.iters),
             eqByLoop(w, Len(h.iters) + 1, IterOfArray(a, h).h, eqFn, <<>>))

\* Iter.eq.
eq(w, h, a) == eqBy(w, h, a, [kind |-> "strict"])

\* !r.value for what a method returned.
negated(r) == [r EXCEPT !.value = ~r.value]

\* Iter.ne.
ne(w, h, a) == negated(eq(w, h, a))

RECURSIVE partialCmpByLoop(_, _, _, _, _)

\* partialCmpBy going on past the pairs the comparator cannot compare.
partialCmpByStepSkips(w, other, lhs, rhs, cmpFn, calls) ==
    IF lhs.done
    THEN [value |-> IF rhs.done THEN 0 ELSE -1, h |-> rhs.h, calls |-> calls]
    ELSE IF rhs.done
         THEN [value |-> 1, h |-> rhs.h, calls |-> calls]
         ELSE LET cmpRes == Compare(cmpFn, lhs.value, rhs.value)
                  cs == Append(calls, <<lhs.value, rhs.value>>)
              IN  IF some(cmpRes) /\ cmpRes # 0
                  THEN [value |-> cmpRes, h |-> rhs.h, calls |-> cs]
                  ELSE partialCmpByLoop(w, other, rhs.h, cmpFn, cs)

\* Iter.partialCmpBy, what one pass of the loop does with lhs and rhs.
partialCmpByStep(w, other, lhs, rhs, cmpFn, calls) ==
    IF lhs.done
    THEN [value |-> IF rhs.done THEN 0 ELSE -1, h |-> rhs.h, calls |-> calls]
    ELSE IF rhs.done
         THEN [value |-> 1, h |-> rhs.h, calls |-> calls]
         ELSE LET cmpRes == Compare(cmpFn, lhs.value, rhs.value)
                  cs == Append(calls, <<lhs.value, rhs.value>>)
              IN  IF ~some(cmpRes) \/ cmpRes # 0
                  THEN [value |-> cmpRes, h |-> rhs.h, calls |-> cs]
                  ELSE partialCmpByLoop(w, other, rhs.h, cmpFn, cs)

\* Iter.partialCmpBy, one pass of the loop: other.next() once this.next()
\* has returned lhs.
partialCmpByPulled(w, other, lhs, cmpFn, calls) ==
    partialCmpByStep(w, other, lhs, next(other, lhs.h), cmpFn, calls)

\* Iter.partialCmpBy on wrapper w: the while loop, one pass per unfolding.
partialCmpByLoop(w, other, h, cmpFn, calls) ==
    partialCmpByPulled(w, other, next(w, h), cmpFn, calls)

\* Iter.partialCmpBy given an array a: other is new Iter(a).
partialCmpBy(w, h, a, cmpFn) ==
    released(Len(h.iters),
             partialCmpByLoop(w, Len(h.iters) + 1, IterOfArray(a, h).h, cmpFn, <<>>))

\* Iter.cmpBy given a wrapper i: other is new Iter(i), whose cursor is the
\* wrapper i itself.
cmpByIter(w, h, i, cmpFn) ==
    released(Len(h.iters),
             cmpByLoop(w, Len(h.iters) + 1, Iter(i, h).h, cmpFn, <<>>))

\* Iter.cmp given a wrapper.
cmpIter(w, h, i) == cmpByIter(w, h, i, [kind |-> "strict"])

\* Iter.eqBy given a wrapper i: other is new Iter(i).
eqByIter(w, h, i, eqFn) ==
    released(Len(h.iters),
             eqByLoop(w, Len(h.iters) + 1, Iter(i, h).h, eqFn, <<>>))

\* Iter.eq given a wrapper.
eqIter(w, h, i) == eqByIter(w, h, i, [kind |-> "strict"])

\* Iter.partialCmpBy given a wrapper i: other is new Iter(i).
partialCmpByIter(w, h, i, cmpFn) ==
    released(Len(h.iters),
             partialCmpByLoop(w, Len(h.iters) + 1, Iter(i, h).h, cmpFn, <<>>))

\* typeof of an argument of range: true, a number, or not given.
TypeOf(v) ==
    IF v = True THEN "boolean"
    ELSE IF v = Undefined THEN "undefined" ELSE "number"

\* range's [begin, end, step], computed from the arguments the overloads
\* share.
rangeBounds(a, b, c, d) ==
    IF TypeOf(b) = "boolean" THEN <<0, a + 1, 1>>
    ELSE IF TypeOf(b) = "number"
         THEN IF TypeOf(c) = "boolean" THEN <<a, b + 1, 1>>
              ELSE IF TypeOf(c) = "number"
                   THEN IF TypeOf(d) = "boolean" THEN <<a, b + 1, c>>
                        ELSE <<a, b, c>>
                   ELSE <<a, b, 1>>
         ELSE <<0, a, 1>>

\* range(a, b, c, d): range is a generator function, so the call runs none
\* of its body and returns a generator object suspended at the start, which
\* holds the arguments.  yields counts the values the generator has yielded.
range(a, b, c, d) ==
    [state |-> "suspendedStart", a |-> a, b |-> b, c |-> c, d |-> d,
     i |-> Undefined, end |-> Undefined, step |-> Undefined, yields |-> 0]

\* The while loop of range with <= for <.
rangeLoopInclusive(g) ==
    IF g.i <= g.end
    THEN [value |-> g.i, done |-> FALSE, threw |-> FALSE,
          gen |-> [g EXCEPT !.state = "suspendedYield", !.yields = @ + 1]]
    ELSE [value |-> Undefined, done |-> TRUE, threw |-> FALSE,
          gen |-> [g EXCEPT !.state = "completed"]]

\* The while loop of range at its test: i is yielded and the generator
\* suspended, or the body returns and the generator is completed.
rangeLoop(g) ==
    IF g.i < g.end
    THEN [value |-> g.i, done |-> FALSE, threw |-> FALSE,
          gen |-> [g EXCEPT !.state = "suspendedYield", !.yields = @ + 1]]
    ELSE [value |-> Undefined, done |-> TRUE, threw |-> FALSE,
          gen |-> [g EXCEPT !.state = "completed"]]

\* The start of range's body refusing a step that is not positive as well.
rangeStartChecksStep(g, bounds) ==
    IF bounds[1] > bounds[2] \/ bounds[3] <= 0
    THEN [value |-> Undefined, done |-> FALSE, threw |-> TRUE,
          gen |-> [g EXCEPT !.state = "completed"]]
    ELSE rangeLoop([g EXCEPT !.i = bounds[1], !.end = bounds[2], !.step = bounds[3]])

\* The body of range from its start to the first yield: the throw when
\* begin > end, which completes the generator, or i = begin and the loop.
rangeStart(g, bounds) ==
    IF bounds[1] > bounds[2]
    THEN [value |-> Undefined, done |-> FALSE, threw |-> TRUE,
          gen |-> [g EXCEPT !.state = "completed"]]
    ELSE rangeLoop([g EXCEPT !.i = bounds[1], !.end = bounds[2], !.step = bounds[3]])

\* next() of the generator object range returned: the body runs from where
\* it is suspended to the next yield, throw or return; a completed generator
\* reports done.
genNext(g) ==
    CASE g.state = "suspendedStart" -> rangeStart(g, rangeBounds(g.a, g.b, g.c, g.d))
      [] g.state = "suspendedYield" -> rangeLoop([g EXCEPT !.i = g.i + g.step])
      [] g.state = "completed" ->
            [value |-> Undefined, done |-> TRUE, threw |-> FALSE, gen |-> g]

----------------------------------------------------------------------------
\* new Iter(src) over an array: the wrapper holds the array's iterator, at
\* index 0.
Init ==
    /\ src \in Arrays
    /\ pred \in Preds
    /\ heap = [pos |-> 0, ended |-> {}, trace |-> <<>>,
               iters |-> <<[kind |-> "array", parent |-> 0, arg |-> {}]>>]
    /\ ret = [op |-> "new"]
    /\ log = [direct |-> TRUE, got |-> <<>>]
    /\ gen = NoGen

Indirect == [direct |-> FALSE, got |-> <<>>]

\* The heap a call starts from: nothing traced yet.
Entry == [heap EXCEPT !.trace = <<>>]

Wrappers == DOMAIN heap.iters

\* No enumerate wrapper of h has counted past MaxIndex.
Capped(h) ==
    \A w \in DOMAIN h.iters :
        h.iters[w].kind = "enumerate" => h.iters[w].arg <= MaxIndex

\* it.next() on wrapper w.
NextCall(w) ==
    LET r == next(w, Entry)
    IN  /\ Capped(r.h)
        /\ heap' = r.h
        /\ ret' = [op |-> "next", w |-> w, pos0 |-> heap.pos,
                   ended0 |-> w \in heap.ended,
                   value |-> r.value, done |-> r.done]
        /\ log' = IF w = 1 /\ log.direct
                  THEN IF r.done THEN log
                       ELSE [log EXCEPT !.got = Append(@, r.value)]
                  ELSE Indirect
        /\ UNCHANGED <<src, pred, gen>>

\* it.next() on wrapper w, with every yield kept in got together with the
\* wrapper that made it.
NextCallLogged(w) ==
    LET r == next(w, Entry)
    IN  /\ Capped(r.h)
        /\ heap' = r.h
        /\ ret' = [op |-> "next", w |-> w, pos0 |-> heap.pos,
                   ended0 |-> w \in heap.ended,
                   value |-> r.value, done |-> r.done]
        /\ log' = IF r.done THEN log
                  ELSE [log EXCEPT !.got = Append(@, <<w, r.value>>)]
        /\ UNCHANGED <<src, pred, gen>>

\* [...it] on wrapper w.
SpreadCall(w) ==
    LET r == spread(w, Entry)
    IN  /\ Capped(r.h)
        /\ heap' = r.h
        /\ ret' = [op |-> "spread", w |-> w, pos0 |-> heap.pos,
                   ended0 |-> w \in heap.ended, value |-> r.value]
        /\ log' = Indirect
        /\ UNCHANGED <<src, pred, gen>>

\* it.fold(init, f) with a caller's f.
FoldCall(w, init) ==
    LET r == fold(w, Entry, init, [kind |-> "append"])
    IN  /\ heap' = r.h
        /\ ret' = [op |-> "fold", w |-> w, pos0 |-> heap.pos, init |-> init,
                   value |-> r.value, calls |-> r.calls]
        /\ log' = Indirect
        /\ UNCHANGED <<src, pred, gen>>

\* it.tryFold(init, f) with a caller's f.
TryFoldCall(w, init) ==
    LET r == tryFold(w, Entry, init, [kind |-> "tryAppend", failOn |-> pred])
    IN  /\ heap' = r.h
        /\ ret' = [op |-> "tryFold", w |-> w, pos0 |-> heap.pos, init |-> init,
                   value |-> r.res, calls |-> r.calls]
        /\ log' = Indirect
        /\ UNCHANGED <<src, pred, gen>>

\* it.find(p).
FindCall(w) ==
    LET r == find(w, Entry, pred)
    IN  /\ heap' = r.h
        /\ ret' = [op |-> "find", w |-> w, pos0 |-> heap.pos,
                   value |-> r.value, calls |-> r.calls]
        /\ log' = Indirect
        /\ UNCHANGED <<src, pred, gen>>

\* it.count().
CountCall(w) ==
    LET r == count(w, Entry)
    IN  /\ heap' = r.h
        /\ ret' = [op |-> "count", w |-> w, pos0 |-> heap.pos, value |-> r.value]
        /\ log' = Indirect
        /\ UNCHANGED <<src, pred, gen>>

\* it.fold1(f) with a caller's f.
Fold1Call(w) ==
    LET r == fold1(w, Entry, [kind |-> "double"])
    IN  /\ heap' = r.h
        /\ ret' = [op |-> "fold1", w |-> w, pos0 |-> heap.pos,
                   value |-> r.value, calls |-> r.calls]
        /\ log' = Indirect
        /\ UNCHANGED <<src, pred, gen>>

\* it.findMap(f).
FindMapCall(w) ==
    LET r == findMap(w, Entry, [dom |-> pred])
    IN  /\ heap' = r.h
        /\ ret' = [op |-> "findMap", w |-> w, pos0 |-> heap.pos,
                   value |-> r.value, calls |-> r.calls]
        /\ log' = Indirect
        /\ UNCHANGED <<src, pred, gen>>

\* it.all(p).
AllCall(w) ==
    LET r == all(w, Entry, pred)
    IN  /\ heap' = r.h
        /\ ret' = [op |-> "all", w |-> w, pos0 |-> heap.pos,
                   value |-> r.value, calls |-> r.calls]
        /\ log' = Indirect
        /\ UNCHANGED <<src, pred, gen>>

\* it.any(p).
AnyCall(w) ==
    LET r == any(w, Entry, pred)
    IN  /\ heap' = r.h
        /\ ret' = [op |-> "any", w |-> w, pos0 |-> heap.pos,
                   value |-> r.value, calls |-> r.calls]
        /\ log' = Indirect
        /\ UNCHANGED <<src, pred, gen>>

\* new Iter(it) on wrapper w.
IterCall(w) ==
    LET r == Iter(w, Entry)
    IN  /\ Len(heap.iters) < MaxIters
        /\ heap' = r.h
        /\ ret' = [op |-> "new Iter", w |-> w, pos0 |-> heap.pos, value |-> r.value]
        /\ log' = Indirect
        /\ UNCHANGED <<src, pred, gen>>

\* it.filter(p) on wrapper w.
FilterCall(w) ==
    LET r == filter(w, Entry, pred)
    IN  /\ Len(heap.iters) < MaxIters
        /\ heap' = r.h
        /\ ret' = [op |-> "filter", w |-> w, pos0 |-> heap.pos, value |-> r.value]
        /\ log' = Indirect
        /\ UNCHANGED <<src, pred, gen>>

\* it.filterMap(f) on wrapper w.
FilterMapCall(w) ==
    LET r == filterMap(w, Entry, [dom |-> pred])
    IN  /\ Len(heap.iters) < MaxIters
        /\ heap' = r.h
        /\ ret' = [op |-> "filterMap", w |-> w, pos0 |-> heap.pos, value |-> r.value]
        /\ log' = Indirect
        /\ UNCHANGED <<src, pred, gen>>

\* it.map(f) on wrapper w.
MapCall(w) ==
    LET r == map(w, Entry, [kind |-> "f", f |-> [dom |-> pred]])
    IN  /\ Len(heap.iters) < MaxIters
        /\ heap' = r.h
        /\ ret' = [op |-> "map", w |-> w, pos0 |-> heap.pos, value |-> r.value]
        /\ log' = Indirect
        /\ UNCHANGED <<src, pred, gen>>

\* it.enumerate() on wrapper w.
EnumerateCall(w) ==
    LET r == enumerate(w, Entry)
    IN  /\ Len(heap.iters) < MaxIters
        /\ heap' = r.h
        /\ ret' = [op |-> "enumerate", w |-> w, pos0 |-> heap.pos, value |-> r.value]
        /\ log' = Indirect
        /\ UNCHANGED <<src, pred, gen>>

\* it.cmpBy(a, cmp) with a caller's comparator.
CmpByCall(w, a) ==
    LET r == cmpBy(w, Entry, a, [kind |-> "rank", high |-> pred])
    IN  /\ heap' = r.h
        /\ ret' = [op |-> "cmpBy", w |-> w, pos0 |-> heap.pos, other |-> a,
                   value |-> r.value, calls |-> r.calls]
        /\ log' = Indirect
        /\ UNCHANGED <<src, pred, gen>>

\* it.cmp(a).
CmpCall(w, a) ==
    LET r == cmp(w, Entry, a)
    IN  /\ heap' = r.h
        /\ ret' = [op |-> "cmp", w |-> w, pos0 |-> heap.pos, other |-> a,
                   value |-> r.value, calls |-> r.calls]
        /\ log' = Indirect
        /\ UNCHANGED <<src, pred, gen>>

\* it.eqBy(a, eq) with a caller's identity function.
EqByCall(w, a) ==
    LET r == eqBy(w, Entry, a, [kind |-> "rank", high |-> pred])
    IN  /\ heap' = r.h
        /\ ret' = [op |-> "eqBy", w |-> w, pos0 |-> heap.pos, other |-> a,
                   value |-> r.value, calls |-> r.calls]
        /\ log' = Indirect
        /\ UNCHANGED <<src, pred, gen>>

\* it.eq(a).
EqCall(w, a) ==
    LET r == eq(w, Entry, a)
    IN  /\ heap' = r.h
        /\ ret' = [op |-> "eq", w |-> w, pos0 |-> heap.pos, other |-> a,
                   value |-> r.value, calls |-> r.calls]
        /\ log' = Indirect
        /\ UNCHANGED <<src, pred, gen>>

\* it.ne(a).
NeCall(w, a) ==
    LET r == ne(w, Entry, a)
    IN  /\ heap' = r.h
        /\ ret' = [op |-> "ne", w |-> w, pos0 |-> heap.pos, other |-> a,
                   value |-> r.value, calls |-> r.calls]
        /\ log' = Indirect
        /\ UNCHANGED <<src, pred, gen>>

\* it.partialCmpBy(a, cmp) with a caller's partial comparator.
PartialCmpByCall(w, a) ==
    LET r == partialCmpBy(w, Entry, a, [kind |-> "partial", nan |-> pred])
    IN  /\ heap' = r.h
        /\ ret' = [op |-> "partialCmpBy", w |-> w, pos0 |-> heap.pos, other |-> a,
                   value |-> r.value, calls |-> r.calls]
        /\ log' = Indirect
        /\ UNCHANGED <<src, pred, gen>>

RECURSIVE CursorAt(_, _)

\* Where the cursor under wrapper i of h stands: the index of the array
\* iterator it pulls, through the wrappers constructed over it.
CursorAt(h, i) ==
    CASE h.iters[i].kind = "array" -> h.pos
      [] h.iters[i].kind = "ownArray" -> h.iters[i].arg.pos
      [] OTHER -> CursorAt(h, h.iters[i].parent)

\* it.cmpBy(i, cmp) with i a wrapper and a caller's comparator.
CmpByIterCall(w, i) ==
    LET r == cmpByIter(w, Entry, i, [kind |-> "rank", high |-> pred])
    IN  /\ heap' = r.h
        /\ ret' = [op |-> "cmpBy", w |-> w, pos0 |-> CursorAt(heap, w),
                   other |-> i, other0 |-> CursorAt(heap, i),
                   value |-> r.value, calls |-> r.calls]
        /\ log' = Indirect
        /\ UNCHANGED <<src, pred, gen>>

\* it.cmp(i) with i a wrapper.
CmpIterCall(w, i) ==
    LET r == cmpIter(w, Entry, i)
    IN  /\ heap' = r.h
        /\ ret' = [op |-> "cmp", w |-> w, pos0 |-> CursorAt(heap, w),
                   other |-> i, other0 |-> CursorAt(heap, i),
                   value |-> r.value, calls |-> r.calls]
        /\ log' = Indirect
        /\ UNCHANGED <<src, pred, gen>>

\* it.eqBy(i, eq) with i a wrapper and a caller's identity function.
EqByIterCall(w, i) ==
    LET r == eqByIter(w, Entry, i, [kind |-> "rank", high |-> pred])
    IN  /\ heap' = r.h
        /\ ret' = [op |-> "eqBy", w |-> w, pos0 |-> CursorAt(heap, w),
                   other |-> i, other0 |-> CursorAt(heap, i),
                   value |-> r.value, calls |-> r.calls]
        /\ log' = Indirect
        /\ UNCHANGED <<src, pred, gen>>

\* it.eq(i) with i a wrapper.
EqIterCall(w, i) ==
    LET r == eqIter(w, Entry, i)
    IN  /\ heap' = r.h
        /\ ret' = [op |-> "eq", w |-> w, pos0 |-> CursorAt(heap, w),
                   other |-> i, other0 |-> CursorAt(heap, i),
                   value |-> r.value, calls |-> r.calls]
        /\ log' = Indirect
        /\ UNCHANGED <<src, pred, gen>>

\* it.partialCmpBy(i, cmp) with i a wrapper and a caller's partial
\* comparator.
PartialCmpByIterCall(w, i) ==
    LET r == partialCmpByIter(w, Entry, i, [kind |-> "partial", nan |-> pred])
    IN  /\ heap' = r.h
        /\ ret' = [op |-> "partialCmpBy", w |-> w, pos0 |-> CursorAt(heap, w),
                   other |-> i, other0 |-> CursorAt(heap, i),
                   value |-> r.value, calls |-> r.calls]
        /\ log' = Indirect
        /\ UNCHANGED <<src, pred, gen>>

\* it.maxBy(cmp) with a caller's comparator.
MaxByCall(w) ==
    LET r == maxBy(w, Entry, [kind |-> "rank", high |-> pred])
    IN  /\ heap' = r.h
        /\ ret' = [op |-> "maxBy", w |-> w, pos0 |-> heap.pos,
                   value |-> r.value, calls |-> r.calls]
        /\ log' = Indirect
        /\ UNCHANGED <<src, pred, gen>>

\* it.minBy(cmp) with a caller's comparator.
MinByCall(w) ==
    LET r == minBy(w, Entry, [kind |-> "rank", high |-> pred])
    IN  /\ heap' = r.h
        /\ ret' = [op |-> "minBy", w |-> w, pos0 |-> heap.pos,
                   value |-> r.value, calls |-> r.calls]
        /\ log' = Indirect
        /\ UNCHANGED <<src, pred, gen>>

\* it.max().
MaxCall(w) ==
    LET r == max(w, Entry)
    IN  /\ heap' = r.h
        /\ ret' = [op |-> "max", w |-> w, pos0 |-> heap.pos,
                   value |-> r.value, calls |-> r.calls]
        /\ log' = Indirect
        /\ UNCHANGED <<src, pred, gen>>

\* it.min().
MinCall(w) ==
    LET r == min(w, Entry)
    IN  /\ heap' = r.h
        /\ ret' = [op |-> "min", w |-> w, pos0 |-> heap.pos,
                   value |-> r.value, calls |-> r.calls]
        /\ log' = Indirect
        /\ UNCHANGED <<src, pred, gen>>

\* The comparators maxByKey and minByKey are called with: the default, and
\* a caller's.
MaxKeyCmps == {[kind |-> "maxCmp"], [kind |-> "reverse"]}

MinKeyCmps == {[kind |-> "minCmp"], [kind |-> "reverse"]}

\* it.maxByKey(f, cmp) with a caller's f.
MaxByKeyCall(w, cmpFn) ==
    LET r == maxByKey(w, Entry, [dom |-> pred], cmpFn)
    IN  /\ heap' = r.h
        /\ ret' = [op |-> "maxByKey", w |-> w, pos0 |-> heap.pos, cmp |-> cmpFn,
                   value |-> r.value, calls |-> r.calls]
        /\ log' = Indirect
        /\ UNCHANGED <<src, pred, gen>>

\* it.minByKey(f, cmp) with a caller's f.
MinByKeyCall(w, cmpFn) ==
    LET r == minByKey(w, Entry, [dom |-> pred], cmpFn)
    IN  /\ heap' = r.h
        /\ ret' = [op |-> "minByKey", w |-> w, pos0 |-> heap.pos, cmp |-> cmpFn,
                   value |-> r.value, calls |-> r.calls]
        /\ log' = Indirect
        /\ UNCHANGED <<src, pred, gen>>

\* A fold entered over the generator has not returned: nothing else runs.
Running == ret.op = "genFold" /\ ret.pc = "loop"

\* range(a, b, c, d): the generator object is returned; nothing is thrown.
RangeCall(a, b, c, d) ==
    /\ ~Running
    /\ gen' = range(a, b, c, d)
    /\ ret' = [op |-> "range", threw |-> FALSE]
    /\ log' = [direct |-> TRUE, got |-> <<>>]
    /\ UNCHANGED <<src, pred, heap>>

\* g.next() on the generator range returned; got collects what it yields.
GenNextCall ==
    LET r == genNext(gen)
    IN  /\ ~Running
        /\ gen.state # "none"
        /\ r.gen.yields <= MaxYield
        /\ gen' = r.gen
        /\ ret' = [op |-> "genNext", state0 |-> gen.state, value |-> r.value,
                   done |-> r.done, threw |-> r.threw]
        /\ log' = IF r.done \/ r.threw THEN log
                  ELSE [log EXCEPT !.got = Append(@, r.value)]
        /\ UNCHANGED <<src, pred, heap>>

\* new Iter(g).count(): fold(0, (acc) => acc + 1) is entered; its loop has
\* not pulled yet.
GenFoldCall ==
    /\ ~Running
    /\ gen.state # "none"
    /\ ret' = [op |-> "genFold", pc |-> "loop", acc |-> 0, threw |-> FALSE]
    /\ log' = Indirect
    /\ UNCHANGED <<src, pred, heap, gen>>

\* One pass of fold's for loop over the generator: this.next(), which is
\* g.next(); the loop is left when it reports done, and by the exception
\* when it throws; f is applied otherwise.
GenFoldPass ==
    LET r == genNext(gen)
    IN  /\ Running
        /\ r.gen.yields <= MaxYield
        /\ gen' = r.gen
        /\ ret' = IF r.threw THEN [ret EXCEPT !.pc = "threw", !.threw = TRUE]
                  ELSE IF r.done THEN [ret EXCEPT !.pc = "returned"]
                  ELSE [ret EXCEPT !.acc = @ + 1]
        /\ UNCHANGED <<src, pred, heap, log>>

\* The last call constructed the array's wrapper or pulled it.
Pulled == ret.op \in {"new", "next"}

\* Every call: the consuming methods on the array's wrapper, the deriving
\* methods on any wrapper, and next() and spread on any wrapper, derived
\* ones included.  A comparing method is called once the wrapper has been
\* pulled to where the comparison is to start: any number of next() calls,
\* then the method.
Next ==
    \/ \E w \in Wrappers : NextCall(w)
    \/ \E w \in Wrappers : SpreadCall(w)
    \/ \E init \in Inits : FoldCall(1, init)
    \/ \E init \in Inits : TryFoldCall(1, init)
    \/ FindCall(1)
    \/ FindMapCall(1)
    \/ AllCall(1)
    \/ AnyCall(1)
    \/ \E w \in Wrappers : FilterCall(w)
    \/ \E w \in Wrappers : IterCall(w)
    \/ \E w \in Wrappers : FilterMapCall(w)
    \/ \E w \in Wrappers : MapCall(w)
    \/ \E w \in Wrappers : EnumerateCall(w)
    \/ Pulled /\ \E a \in Others : CmpByCall(1, a)
    \/ Pulled /\ \E a \in Others : CmpCall(1, a)
    \/ Pulled /\ \E a \in Others : EqByCall(1, a)
    \/ Pulled /\ \E a \in Others : EqCall(1, a)
    \/ Pulled /\ \E a \in Others : NeCall(1, a)
    \/ Pulled /\ \E a \in Others : PartialCmpByCall(1, a)
    \/ MaxByCall(1)
    \/ MinByCall(1)
    \/ MaxCall(1)
    \/ MinCall(1)
    \/ \E cmpFn \in MaxKeyCmps : MaxByKeyCall(1, cmpFn)
    \/ \E cmpFn \in MinKeyCmps : MinByKeyCall(1, cmpFn)

Spec == Init /\ [][Next]_vars

\* The consuming methods of tryFold's family on the array's wrapper, filter
\* and new Iter on any wrapper, and next() and spread on any wrapper.
NextConsume ==
    \/ \E w \in Wrappers : NextCall(w)
    \/ \E w \in Wrappers : SpreadCall(w)
    \/ \E init \in Inits : FoldCall(1, init)
    \/ \E init \in Inits : TryFoldCall(1, init)
    \/ FindCall(1)
    \/ FindMapCall(1)
    \/ AllCall(1)
    \/ AnyCall(1)
    \/ \E w \in Wrappers : FilterCall(w)
    \/ \E w \in Wrappers : IterCall(w)

SpecConsume == Init /\ [][NextConsume]_vars

\* The array's wrapper and the wrappers constructed from it, pulled by
\* next() and by spread.
NextIter ==
    \/ \E w \in Wrappers : NextCall(w)
    \/ \E w \in Wrappers : SpreadCall(w)
    \/ \E w \in Wrappers : IterCall(w)

SpecIter == Init /\ [][NextIter]_vars

\* next() and one consuming method on the array's wrapper.
NextFold ==
    \/ NextCall(1)
    \/ \E init \in Inits : FoldCall(1, init)

SpecFold == Init /\ [][NextFold]_vars

NextTryFold ==
    \/ NextCall(1)
    \/ \E init \in Inits : TryFoldCall(1, init)

SpecTryFold == Init /\ [][NextTryFold]_vars

NextAll ==
    \/ NextCall(1)
    \/ AllCall(1)

SpecAll == Init /\ [][NextAll]_vars

NextAny ==
    \/ NextCall(1)
    \/ AnyCall(1)

SpecAny == Init /\ [][NextAny]_vars

NextFind ==
    \/ NextCall(1)
    \/ FindCall(1)
    \/ FindMapCall(1)

SpecFind == Init /\ [][NextFind]_vars

\* filter wrappers, pulled by next() and by spread.
NextFilter ==
    \/ \E w \in Wrappers : NextCall(w)
    \/ \E w \in Wrappers : SpreadCall(w)
    \/ \E w \in Wrappers : FilterCall(w)

SpecFilter == Init /\ [][NextFilter]_vars

\* filterMap wrappers, pulled by next() and by spread.
NextFilterMap ==
    \/ \E w \in Wrappers : NextCall(w)
    \/ \E w \in Wrappers : SpreadCall(w)
    \/ \E w \in Wrappers : FilterMapCall(w)

SpecFilterMap == Init /\ [][NextFilterMap]_vars

\* map wrappers, pulled by next() and by spread.
NextMap ==
    \/ \E w \in Wrappers : NextCall(w)
    \/ \E w \in Wrappers : SpreadCall(w)
    \/ \E w \in Wrappers : MapCall(w)

SpecMap == Init /\ [][NextMap]_vars

\* enumerate wrappers, pulled by next() and by spread.
NextEnumerate ==
    \/ \E w \in Wrappers : NextCall(w)
    \/ \E w \in Wrappers : SpreadCall(w)
    \/ \E w \in Wrappers : EnumerateCall(w)

SpecEnumerate == Init /\ [][NextEnumerate]_vars

\* next() and the comparing methods on the array's wrapper, given an array.
NextCmp ==
    \/ NextCall(1)
    \/ Pulled /\ \E a \in Others : CmpByCall(1, a)
    \/ Pulled /\ \E a \in Others : CmpCall(1, a)

SpecCmp == Init /\ [][NextCmp]_vars

NextEq ==
    \/ NextCall(1)
    \/ Pulled /\ \E a \in Others : EqByCall(1, a)
    \/ Pulled /\ \E a \in Others : EqCall(1, a)
    \/ Pulled /\ \E a \in Others : NeCall(1, a)

SpecEq == Init /\ [][NextEq]_vars

NextPartialCmp ==
    \/ NextCall(1)
    \/ Pulled /\ \E a \in Others : PartialCmpByCall(1, a)

SpecPartialCmp == Init /\ [][NextPartialCmp]_vars

\* next(), maxBy and minBy on the array's wrapper.
NextMaxBy ==
    \/ NextCall(1)
    \/ MaxByCall(1)
    \/ MinByCall(1)

SpecMaxBy == Init /\ [][NextMaxBy]_vars

\* new Iter(src) over an array of integers.
InitInts ==
    /\ src \in IntArrays
    /\ pred = {}
    /\ heap = [pos |-> 0, ended |-> {}, trace |-> <<>>,
               iters |-> <<[kind |-> "array", parent |-> 0, arg |-> {}]>>]
    /\ ret = [op |-> "new"]
    /\ log = [direct |-> TRUE, got |-> <<>>]
    /\ gen = NoGen

\* next(), max and min on the wrapper of an array of integers.
NextMax ==
    \/ NextCall(1)
    \/ MaxCall(1)
    \/ MinCall(1)

SpecMax == InitInts /\ [][NextMax]_vars

\* next(), maxByKey and minByKey on the array's wrapper.
NextByKey ==
    \/ NextCall(1)
    \/ \E cmpFn \in MaxKeyCmps : MaxByKeyCall(1, cmpFn)
    \/ \E cmpFn \in MinKeyCmps : MinByKeyCall(1, cmpFn)

SpecByKey == Init /\ [][NextByKey]_vars

\* The four deriving methods on any wrapper, and next() on the array's
\* wrapper.
NextDerive ==
    \/ NextCall(1)
    \/ \E w \in Wrappers : FilterCall(w)
    \/ \E w \in Wrappers : FilterMapCall(w)
    \/ \E w \in Wrappers : MapCall(w)
    \/ \E w \in Wrappers : EnumerateCall(w)

SpecDerive == Init /\ [][NextDerive]_vars

\* No array is wrapped: range has not been called.
InitRange ==
    /\ src = <<>>
    /\ pred = {}
    /\ heap = [pos |-> 0, ended |-> {}, trace |-> <<>>,
               iters |-> <<[kind |-> "array", parent |-> 0, arg |-> {}]>>]
    /\ ret = [op |-> "new"]
    /\ log = [direct |-> TRUE, got |-> <<>>]
    /\ gen = NoGen

\* range called with each of its overloads, and the generator it returned
\* pulled by next() and by a fold.
NextRange ==
    \/ \E args \in RangeArgs : RangeCall(args[1], args[2], args[3], args[4])
    \/ GenNextCall
    \/ GenFoldCall
    \/ GenFoldPass

SpecRange == InitRange /\ [][NextRange]_vars

\* next(), count and find on the array's wrapper.
NextCount ==
    \/ NextCall(1)
    \/ CountCall(1)
    \/ FindCall(1)

SpecCount == Init /\ [][NextCount]_vars

\* next() and fold1 on the array's wrapper.
NextFold1 ==
    \/ NextCall(1)
    \/ Fold1Call(1)

SpecFold1 == Init /\ [][NextFold1]_vars

\* const it = new Iter(src), a = it.enumerate(), b = it.enumerate(): two
\* enumerate wrappers over the array's wrapper, nothing pulled.
InitSiblings ==
    /\ src \in Arrays
    /\ pred = {}
    /\ heap = enumerate(1, enumerate(1, [pos |-> 0, ended |-> {}, trace |-> <<>>,
                 iters |-> <<[kind |-> "array", parent |-> 0, arg |-> {}]>>]).h).h
    /\ ret = [op |-> "new"]
    /\ log = [direct |-> FALSE, got |-> <<>>]
    /\ gen = NoGen

\* next() on the array's wrapper and on the two enumerate wrappers, in any
\* interleaving.
NextSiblings == \E w \in Wrappers : NextCallLogged(w)

SpecSiblings == InitSiblings /\ [][NextSiblings]_vars

\* const it = new Iter(src), other = new Iter(a): two wrappers, each over
\* the iterator of an array of its own.
InitPair ==
    /\ src \in Others
    /\ pred \in Preds
    /\ \E a \in Others :
          heap = IterOfArray(a, [pos |-> 0, ended |-> {}, trace |-> <<>>,
                     iters |-> <<[kind |-> "array", parent |-> 0, arg |-> {}]>>]).h
    /\ ret = [op |-> "new"]
    /\ log = [direct |-> FALSE, got |-> <<>>]
    /\ gen = NoGen

\* next() on either wrapper, and the first compared with the second.
NextPair ==
    \/ \E w \in Wrappers : NextCall(w)
    \/ CmpByIterCall(1, 2)
    \/ EqByIterCall(1, 2)
    \/ PartialCmpByIterCall(1, 2)

SpecPair == InitPair /\ [][NextPair]_vars

\* The array's wrapper and the wrappers constructed from it, all over the
\* one cursor: the array's wrapper pulled by next() and compared with
\* itself and with each of the others.
NextSelf ==
    \/ NextCall(1)
    \/ IterCall(1)
    \/ \E i \in Wrappers : CmpByIterCall(1, i)
    \/ \E i \in Wrappers : CmpIterCall(1, i)
    \/ \E i \in Wrappers : EqByIterCall(1, i)
    \/ \E i \in Wrappers : EqIterCall(1, i)

SpecSelf == Init /\ [][NextSelf]_vars

----------------------------------------------------------------------------
\* What the claims are stated over.

\* The least element of a non-empty set of integers.
Min(S) == CHOOSE k \in S : \A j \in S : k <= j

\* The elements the array's wrapper had not yet pulled when the last call began.
Rest == SubSeq(src, ret.pos0 + 1, Len(src))

\* What the next pull on the array's wrapper must give once n elements of src
\* have been pulled: element n + 1, or done when there is none.
PullAt(n) ==
    LET r == next(1, heap)
    IN  IF n < Len(src)
        THEN ~r.done /\ r.value = src[n + 1] /\ r.h.pos = n + 1
        ELSE r.done

\* C1: pulling new Iter(S) by next() alone, up to the first done, yields the
\* elements of S in S's order: what has been yielded so far is a prefix of S,
\* and it is all of S when next() reports done.
C1_RoundTrip ==
    log.direct =>
        /\ log.got = SubSeq(src, 1, Len(log.got))
        /\ (ret.op = "next" /\ ret.done) => log.got = src

C1_Witness ==
    /\ log.direct /\ ret.op = "next" /\ ret.done
    /\ Len(src) = MaxLen /\ src[1] # src[2] /\ log.got = src

\* C2: once next() on the array's wrapper has reported done, every later
\* next() on it reports done, whatever calls were made in between.
C2_StaysEnded ==
    (ret.op = "next" /\ ret.w = 1 /\ ret.ended0) => ret.done

C2_Witness ==
    /\ ret.op = "next" /\ ret.w = 1 /\ ret.ended0 /\ ret.done
    /\ Len(src) > 1 /\ Len(heap.iters) > 1

\* C3: Symbol.iterator returns the wrapper itself and pulls nothing, so
\* iterating a wrapper that has pulled k of n elements (by spread, or
\* through new Iter(wrapper)) yields elements k..n-1, and nothing when it is
\* exhausted.
C3_IterateContinues ==
    /\ \A w \in Wrappers : SymbolIterator(w, heap) = [iter |-> w, h |-> heap]
    /\ ret.op = "new Iter" => heap.pos = ret.pos0
    /\ (ret.op = "spread" /\ heap.iters[ret.w].kind \in {"array", "iter"}) =>
          ret.value = Rest

C3_Witness ==
    /\ ret.op = "spread" /\ heap.iters[ret.w].kind = "iter"
    /\ ret.pos0 > 0 /\ Len(ret.value) >= 2 /\ ret.value = Rest

\* The positions of Rest whose element is in p, and those whose element is not.
In(p) == {k \in 1..Len(Rest) : Rest[k] \in p}

NotIn(p) == {k \in 1..Len(Rest) : Rest[k] \notin p}

\* The array's wrapper as it was when the last call began.
Before == [heap EXCEPT !.pos = ret.pos0, !.trace = <<>>]

\* calls[i] is f invoked on element i of Rest with the accumulator chained
\* from init through the elements before it.
Chained(calls) ==
    \A i \in 1..Len(calls) :
        calls[i] = <<ret.init \o SubSeq(Rest, 1, i - 1), Rest[i]>>

\* C4: tryFold returns the failure f gives at the first element it fails on,
\* f having been applied left to right to the chained accumulators up to
\* there; when f never fails it returns success of what fold gives with the
\* same accumulation, which is success(init) when nothing remains.
C4_TryFoldResult ==
    ret.op = "tryFold" =>
        /\ Chained(ret.calls)
        /\ IF In(pred) = {}
           THEN /\ ret.value = Ok(ret.init \o Rest)
                /\ ret.value = Ok(fold(1, Before, ret.init, [kind |-> "append"]).value)
                /\ Len(ret.calls) = Len(Rest)
           ELSE /\ ret.value = Err(Rest[Min(In(pred))])
                /\ Len(ret.calls) = Min(In(pred))

C4_Witness ==
    /\ ret.op = "tryFold" /\ ~ret.value.success
    /\ Len(ret.calls) = MaxLen /\ ret.init # <<>>

\* C5: when tryFold stops on the failure at element k of Rest (counted from
\* 0), k + 1 elements have been pulled, f has been invoked on elements 0..k
\* only, the next pull yields element k + 1 (done if k was the last), and the
\* wrapper has not reported done.
C5_TryFoldStops ==
    (ret.op = "tryFold" /\ ~ret.value.success) =>
        /\ heap.pos = ret.pos0 + Min(In(pred))
        /\ Len(ret.calls) = Min(In(pred))
        /\ \A i \in 1..Len(ret.calls) : ret.calls[i][2] = Rest[i]
        /\ PullAt(ret.pos0 + Min(In(pred)))
        /\ 1 \notin heap.ended

C5_Witness ==
    /\ ret.op = "tryFold" /\ ~ret.value.success
    /\ Len(ret.calls) >= 2 /\ heap.pos < Len(src)
    /\ ~next(1, heap).done

\* C6: fold returns f(...f(f(init, x0), x1)..., xn-1), f applied once per
\* remaining element in pull order; with nothing remaining it returns init
\* and f is not invoked; afterwards the wrapper is exhausted.
C6_FoldResult ==
    ret.op = "fold" =>
        /\ Chained(ret.calls)
        /\ Len(ret.calls) = Len(Rest)
        /\ ret.value = ret.init \o Rest
        /\ (Rest = <<>> => ret.value = ret.init /\ ret.calls = <<>>)
        /\ heap.pos = Len(src)
        /\ 1 \in heap.ended
        /\ next(1, heap).done

C6_Witness ==
    /\ ret.op = "fold" /\ ret.init # <<>>
    /\ Len(ret.calls) >= 2 /\ ret.calls[1][2] # ret.calls[2][2]

\* C7: all(p) is true iff every remaining element satisfies p.  When false,
\* it has pulled up to and including the first element failing p and the
\* next pull yields the element after it; when true the wrapper is exhausted.
C7_All ==
    ret.op = "all" =>
        /\ ret.value = (NotIn(pred) = {})
        /\ IF ret.value
           THEN heap.pos = Len(src) /\ next(1, heap).done
           ELSE /\ heap.pos = ret.pos0 + Min(NotIn(pred))
                /\ PullAt(ret.pos0 + Min(NotIn(pred)))

C7_Witness ==
    /\ ret.op = "all" /\ ~ret.value
    /\ Len(ret.calls) >= 2 /\ heap.pos < Len(src)

\* C8: any(p) is true iff some remaining element satisfies p.  When true, it
\* has pulled up to and including the first element satisfying p and the next
\* pull yields the element after it; when false the wrapper is exhausted.
C8_Any ==
    ret.op = "any" =>
        /\ ret.value = (In(pred) # {})
        /\ IF ret.value
           THEN /\ heap.pos = ret.pos0 + Min(In(pred))
                /\ PullAt(ret.pos0 + Min(In(pred)))
           ELSE heap.pos = Len(src) /\ next(1, heap).done

C8_Witness ==
    /\ ret.op = "any" /\ ret.value
    /\ Len(ret.calls) >= 2 /\ heap.pos < Len(src)

\* C9: find(p) returns the first remaining element satisfying p, having
\* pulled the elements before it and none after it, or null with the wrapper
\* exhausted when there is none; findMap(f) returns the first present f(x)
\* in the same way.
C9_Find ==
    /\ ret.op = "find" =>
          IF In(pred) = {}
          THEN ret.value = Null /\ heap.pos = Len(src) /\ next(1, heap).done
          ELSE /\ ret.value = Rest[Min(In(pred))]
               /\ heap.pos = ret.pos0 + Min(In(pred))
               /\ Len(ret.calls) = Min(In(pred))
    /\ ret.op = "findMap" =>
          LET f == [dom |-> pred]
              present == {k \in 1..Len(Rest) : F(f, Rest[k]) # Null}
          IN  IF present = {}
              THEN ret.value = Null /\ heap.pos = Len(src) /\ next(1, heap).done
              ELSE /\ ret.value = F(f, Rest[Min(present)])
                   /\ heap.pos = ret.pos0 + Min(present)
                   /\ Len(ret.calls) = Min(present)

C9_Witness ==
    /\ ret.op = "find" /\ ret.value # Null
    /\ Len(ret.calls) >= 2 /\ heap.pos < Len(src)

\* C10: the wrapper filter(p) returns, pulled to its first done, yields the
\* elements of S that satisfy p, in S's order, and reports done only when
\* the parent has ended.
C10_FilterYields ==
    (ret.op = "spread" /\ heap.iters[ret.w].kind = "filter"
        /\ heap.iters[ret.w].parent = 1) =>
        /\ ret.value = SelectSeq(Rest, LAMBDA v : P(heap.iters[ret.w].arg, v))
        /\ heap.pos = Len(src)

\* f applied to each element of s.
FSeq(f, s) == [i \in 1..Len(s) |-> F(f, s[i])]

\* The events of the last call's trace that are e of wrapper w.
Events(e, w) == {i \in DOMAIN heap.trace : heap.trace[i].e = e /\ heap.trace[i].w = w}

\* The wrapper the last call was made on, and the wrapper it was derived from.
Callee == heap.iters[ret.w]

\* C11: the wrapper filterMap(f) returns, pulled to exhaustion, yields the
\* present (non-null) f(x) for the remaining x in order, as f gave them, and
\* skips every x whose f(x) is null.
C11_FilterMapYields ==
    (ret.op = "spread" /\ Callee.kind = "filterMap" /\ Callee.parent = 1) =>
        /\ ret.value = SelectSeq(FSeq(Callee.arg, Rest), LAMBDA v : v # Null)
        /\ heap.pos = Len(src)

C11_Witness ==
    /\ ret.op = "spread" /\ Callee.kind = "filterMap" /\ Callee.parent = 1
    /\ Len(Rest) = 3 /\ Len(ret.value) = 2 /\ F(Callee.arg, Rest[2]) = Null
    /\ ret.value = <<F(Callee.arg, Rest[1]), F(Callee.arg, Rest[3])>>

\* C12: a pull on the wrapper map(f) returns pulls the parent exactly once;
\* when the parent yields x it invokes f once, on x, and yields f(x); when
\* the parent signals end it does not invoke f and passes the end through.
\* Over the array's wrapper the k-th pull so yields f(xk), and pulling to
\* exhaustion invokes f once per remaining element.
C12_MapYields ==
    /\ (ret.op = "next" /\ Callee.kind = "map") =>
          /\ Cardinality(Events("next", Callee.parent)) = 1
          /\ IF ret.done
             THEN Events("f", ret.w) = {} /\ ret.value = Undefined
             ELSE \E i \in Events("f", ret.w) :
                     /\ Events("f", ret.w) = {i}
                     /\ ret.value = CallMap(Callee.arg, heap.trace[i].v)
          /\ Callee.parent = 1 =>
                IF ret.pos0 < Len(src)
                THEN /\ ~ret.done /\ heap.pos = ret.pos0 + 1
                     /\ ret.value = F(Callee.arg.f, src[ret.pos0 + 1])
                ELSE ret.done /\ heap.pos = ret.pos0
    /\ (ret.op = "spread" /\ Callee.kind = "map" /\ Callee.parent = 1) =>
          /\ ret.value = FSeq(Callee.arg.f, Rest)
          /\ Cardinality(Events("f", ret.w)) = Len(Rest)
          /\ Cardinality(Events("next", 1)) = Len(Rest) + 1

C12_Witness ==
    /\ ret.op = "next" /\ Callee.kind = "map" /\ Callee.parent = 1
    /\ ret.done /\ ret.ended0 /\ Len(src) >= 2
    /\ Events("f", ret.w) = {} /\ Cardinality(Events("next", 1)) = 1

\* C13: the index enumerate's wrapper pairs an element with is the number of
\* pulls made on that wrapper before: a new wrapper holds 0, so pulled to
\* exhaustion over the remaining x0..xn-1 it yields (0,x0), (1,x1), ...,
\* (n-1,xn-1) and then end.
C13_EnumerateYields ==
    /\ ret.op = "enumerate" => heap.iters[ret.value].arg = 0
    /\ (ret.op = "next" /\ Callee.kind = "enumerate" /\ Callee.parent = 1
          /\ ~ret.done) =>
          ret.value = Pair(Callee.arg - 1, src[ret.pos0 + 1])
    /\ (ret.op = "spread" /\ Callee.kind = "enumerate" /\ Callee.parent = 1) =>
          /\ Len(ret.value) = Len(Rest)
          /\ heap.pos = Len(src)
          /\ \A i \in 1..Len(Rest) :
                /\ Snd(ret.value[i]) = Rest[i]
                /\ Fst(ret.value[i]) = Callee.arg - Len(Rest) - 1 + (i - 1)
          /\ Callee.arg = Len(Rest) + 1 =>
                ret.value = [i \in 1..Len(Rest) |-> Pair(i - 1, Rest[i])]

C13_Witness ==
    /\ ret.op = "spread" /\ Callee.kind = "enumerate" /\ Callee.parent = 1
    /\ Len(Rest) = 3 /\ ret.pos0 = 0 /\ Callee.arg = 4
    /\ ret.value = <<Pair(0, src[1]), Pair(1, src[2]), Pair(2, src[3])>>

\* C14: a call of map, filter, filterMap or enumerate calls next() on no
\* wrapper and invokes no function: the parent is where it was, and the
\* next pull on the array's wrapper yields the element it would have
\* yielded before the call.
C14_DeriveIsLazy ==
    ret.op \in {"map", "filter", "filterMap", "enumerate"} =>
        /\ heap.trace = <<>>
        /\ heap.pos = ret.pos0
        /\ heap.iters[ret.value].parent = ret.w
        /\ PullAt(ret.pos0)
        /\ spread(1, heap).value = Rest

C14_Witness ==
    /\ ret.op = "map" /\ ret.w = 1 /\ ret.pos0 = 1 /\ Len(src) = 3
    /\ heap.pos = 1 /\ ~next(1, heap).done /\ next(1, heap).value = src[2]

\* The indices both Rest and the array handed to the last call have.
Common == 1..(IF Len(Rest) < Len(ret.other) THEN Len(Rest) ELSE Len(ret.other))

\* The indices of Common where comparator c gives something other than 0.
Decisive(c) == {i \in Common : Compare(c, Rest[i], ret.other[i]) # 0}

\* What the lengths alone decide: negative when A is shorter, positive when
\* B is shorter, 0 when they are as long.
ByLength(value) ==
    /\ Len(Rest) < Len(ret.other) => value < 0
    /\ Len(Rest) > Len(ret.other) => value > 0
    /\ Len(Rest) = Len(ret.other) => value = 0

\* What a lexicographic comparison by c returns.
Lexicographic(c) ==
    IF Decisive(c) # {}
    THEN ret.value = Compare(c, Rest[Min(Decisive(c))], ret.other[Min(Decisive(c))])
    ELSE ret.value # Null /\ ByLength(ret.value)

\* C15: cmpBy(other, cmp) over the remaining elements A and the array B
\* returns what cmp gives at the first index where it gives a nonzero
\* number; with no such index in the common prefix it returns a negative
\* number when A is shorter, a positive one when B is shorter, 0 when both
\* are as long.  cmp(other) is cmpBy with the comparison by < and >.
C15_CmpBy ==
    /\ ret.op = "cmpBy" => Lexicographic([kind |-> "rank", high |-> pred])
    /\ ret.op = "cmp" => Lexicographic([kind |-> "strict"])

C15_Witness ==
    /\ ret.op = "cmpBy" /\ ret.value = 3
    /\ Min(Decisive([kind |-> "rank", high |-> pred])) = 2
    /\ Len(Rest) > Len(ret.other)

\* C16: eqBy(other, eq) is true iff the remaining elements A and the array B
\* are as long and eq holds at every index; eq(other) is eqBy with strict
\* equality and ne(other) its negation.
C16_EqBy ==
    /\ ret.op = "eqBy" =>
          ret.value = (/\ Len(Rest) = Len(ret.other)
                       /\ \A i \in Common :
                             Equal([kind |-> "rank", high |-> pred], Rest[i], ret.other[i]))
    /\ ret.op = "eq" => ret.value = (Rest = ret.other)
    /\ ret.op = "ne" => ret.value = (Rest # ret.other)

C16_Witness ==
    /\ ret.op = "eqBy" /\ ~ret.value
    /\ Len(Rest) = 1 /\ Len(ret.other) = 2
    /\ \A i \in Common :
          Equal([kind |-> "rank", high |-> pred], Rest[i], ret.other[i])

\* C17: partialCmpBy(other, cmp) returns what cmp gives at the first index
\* where it gives null or a nonzero number, so a nonzero number at an
\* earlier index wins over a null at a later one; with no such index the
\* lengths decide as in cmpBy.
C17_PartialCmpBy ==
    ret.op = "partialCmpBy" => Lexicographic([kind |-> "partial", nan |-> pred])

C17_Witness ==
    /\ ret.op = "partialCmpBy" /\ ret.value = 3
    /\ Len(Rest) >= 2 /\ Len(ret.other) >= 2
    /\ Compare([kind |-> "partial", nan |-> pred], Rest[1], ret.other[1]) = 3
    /\ Compare([kind |-> "partial", nan |-> pred], Rest[2], ret.other[2]) = Null

\* The caller's comparator of maxBy and minBy in the last call.
ByRank == [kind |-> "rank", high |-> pred]

\* ret.calls is the closure invoked on elements 2.. of Rest in order, the
\* best so far starting as element 1 and replaced by the candidate v where
\* Takes(cmp(v, best)) holds; ret.value is the best at the end.
Kept(Takes(_)) ==
    LET step(c) == IF Takes(Compare(ByRank, c[2], c[1])) THEN c[2] ELSE c[1]
    IN  /\ Len(ret.calls) = Len(Rest) - 1
        /\ \A i \in 1..Len(ret.calls) :
              /\ ret.calls[i][2] = Rest[i + 1]
              /\ ret.calls[i][1] = IF i = 1 THEN Rest[1] ELSE step(ret.calls[i - 1])
        /\ ret.value = IF ret.calls = <<>> THEN Rest[1]
                       ELSE step(ret.calls[Len(ret.calls)])

Positive(n) == n > 0

Negative(n) == n < 0

\* C18: maxBy(cmp) replaces the best so far by a later candidate v only when
\* cmp(v, best) > 0, minBy(cmp) only when cmp(v, best) < 0, so the earliest
\* of the elements that compare equal to the extremum is returned; both
\* return null when nothing remains.
C18_MaxByMinBy ==
    /\ ret.op = "maxBy" =>
          IF Rest = <<>>
          THEN ret.value = Null /\ ret.calls = <<>>
          ELSE /\ Kept(Positive)
               /\ ret.value = Rest[Min({i \in 1..Len(Rest) : \A j \in 1..Len(Rest) :
                                          Compare(ByRank, Rest[j], Rest[i]) <= 0})]
    /\ ret.op = "minBy" =>
          IF Rest = <<>>
          THEN ret.value = Null /\ ret.calls = <<>>
          ELSE /\ Kept(Negative)
               /\ ret.value = Rest[Min({i \in 1..Len(Rest) : \A j \in 1..Len(Rest) :
                                          Compare(ByRank, Rest[j], Rest[i]) >= 0})]

C18_Witness ==
    /\ ret.op = "maxBy" /\ Len(Rest) = 3
    /\ Compare(ByRank, Rest[2], Rest[1]) = 0 /\ Compare(ByRank, Rest[3], Rest[1]) = 0
    /\ Rest[2] # Rest[1] /\ ret.value = Rest[1]

\* C19: over integers max() returns an element >= every element and min()
\* an element <= every element; both return null when nothing remains;
\* afterwards the wrapper is exhausted.
C19_MaxMin ==
    ret.op \in {"max", "min"} =>
        /\ IF Rest = <<>>
           THEN ret.value = Null
           ELSE /\ \E i \in 1..Len(Rest) : ret.value = Rest[i]
                /\ ret.op = "max" => \A i \in 1..Len(Rest) : ret.value >= Rest[i]
                /\ ret.op = "min" => \A i \in 1..Len(Rest) : ret.value <= Rest[i]
        /\ heap.pos = Len(src)
        /\ 1 \in heap.ended
        /\ next(1, heap).done

C19_Witness ==
    /\ ret.op = "max" /\ Len(Rest) = 3
    /\ Rest[1] < Rest[3] /\ Rest[3] < Rest[2] /\ ret.value = Rest[2]
    /\ next(1, heap).done

\* The key of element i of Rest, and the order of keys the last call
\* compared by: the caller's, or the natural one.
Key(i) == F([dom |-> pred], Rest[i])

Order(a, b) == IF ret.cmp.kind = "reverse" THEN reverseCmp(a, b) ELSE strictCmp(a, b)

\* C20: maxByKey(f, cmp) and minByKey(f, cmp) return the element x itself,
\* not f(x), whose key f(x) is the greatest, respectively the least, under
\* cmp (the natural order by default), the earliest such element on ties,
\* and null when nothing remains.
C20_ByKey ==
    /\ ret.op = "maxByKey" =>
          IF Rest = <<>>
          THEN ret.value = Null
          ELSE ret.value = Rest[Min({i \in 1..Len(Rest) : \A j \in 1..Len(Rest) :
                                       Order(Key(i), Key(j)) >= 0})]
    /\ ret.op = "minByKey" =>
          IF Rest = <<>>
          THEN ret.value = Null
          ELSE ret.value = Rest[Min({i \in 1..Len(Rest) : \A j \in 1..Len(Rest) :
                                       Order(Key(i), Key(j)) <= 0})]

C20_Witness ==
    /\ ret.op = "maxByKey" /\ ret.cmp.kind = "maxCmp" /\ Len(Rest) = 3
    /\ Order(Key(2), Key(1)) > 0 /\ Order(Key(3), Key(2)) = 0
    /\ ret.value = Rest[2] /\ Key(2) # Rest[2]


\* The start, the stop bound, the step and the inclusive flag range was
\* called with, as the overloads name them.
Start == IF TypeOf(gen.b) = "number" THEN gen.a ELSE 0

Stop == IF TypeOf(gen.b) = "number" THEN gen.b ELSE gen.a

Step == IF TypeOf(gen.c) = "number" THEN gen.c ELSE 1

Inclusive == True \in {gen.b, gen.c, gen.d}

End == IF Inclusive THEN Stop + 1 ELSE Stop

\* begin, begin + step, ... : the first n of them.
Progression(n) == [k \in 1..n |-> Start + (k - 1) * Step]

\* The values begin + k * step strictly below end, for a positive step.
Below == Progression((End - Start + Step - 1) \div Step)

\* The call of range that made the generator, as the examples write it.
Called(a, b, c, d) ==
    /\ gen.state # "none"
    /\ <<gen.a, gen.b, gen.c, gen.d>> = <<a, b, c, d>>

\* C21: for begin <= end and step >= 1 the generator range returns yields
\* begin, begin + step, ... for every such value strictly below end, and
\* then reports done; begin defaults to 0, step to 1, and the inclusive flag
\* makes the bound stop + 1.  range(5) is 0..4, range(3, 7) is 3..6,
\* range(2, true) is 0..2, range(2, 8, 2) and range(2, 6, 2, true) are
\* 2, 4, 6.
C21_RangeYields ==
    (gen.state # "none" /\ log.direct /\ Start <= End /\ Step >= 1) =>
        /\ Len(log.got) <= Len(Below)
        /\ log.got = SubSeq(Below, 1, Len(log.got))
        /\ gen.state = "completed" <=> (ret.op = "genNext" /\ ret.done)
        /\ ret.op = "genNext" =>
              /\ ~ret.threw
              /\ ret.done => log.got = Below /\ ret.value = Undefined
              /\ ~ret.done => ret.value = Below[Len(log.got)]
        /\ gen.state = "completed" =>
              /\ Called(5, Undefined, Undefined, Undefined) => log.got = <<0, 1, 2, 3, 4>>
              /\ Called(3, 7, Undefined, Undefined) => log.got = <<3, 4, 5, 6>>
              /\ Called(2, True, Undefined, Undefined) => log.got = <<0, 1, 2>>
              /\ Called(2, 8, 2, Undefined) => log.got = <<2, 4, 6>>
              /\ Called(2, 6, 2, True) => log.got = <<2, 4, 6>>

C21_Witness ==
    /\ Called(2, 6, 2, True) /\ log.direct
    /\ gen.state = "completed" /\ log.got = <<2, 4, 6>>
    /\ ret.op = "genNext" /\ ret.done

\* C22: when begin > end after the bounds are adjusted, the call of range
\* raises the error itself, before any element is pulled, and no later pull
\* of what it returned raises it.
C22_ThrowsAtCall ==
    /\ (ret.op = "range" /\ Start > End) => ret.threw
    /\ ret.op = "genNext" => ~ret.threw


\* C29: for begin < end and a step that is zero or negative, the generator
\* range returns raises nothing and never reports done: its k-th pull yields
\* begin + (k - 1) * step, begin every time when the step is 0, and a fold
\* entered over it is still in its loop after every pass.
C29_RangeNeverEnds ==
    (gen.state # "none" /\ Start < End /\ Step <= 0) =>
        /\ gen.state # "completed"
        /\ ret.op = "genNext" =>
              /\ ~ret.done /\ ~ret.threw
              /\ ret.value = Start + (gen.yields - 1) * Step
              /\ Step = 0 => ret.value = Start
              /\ log.got = Progression(gen.yields)
        /\ ret.op = "genFold" =>
              /\ ret.pc = "loop" /\ ~ret.threw
              /\ ret.acc <= gen.yields
              /\ gen.yields < MaxYield => ENABLED GenFoldPass

C29_Witness ==
    /\ gen.state = "suspendedYield" /\ Start < End /\ Step < 0
    /\ ret.op = "genFold" /\ ret.pc = "loop" /\ ret.acc = 3
    /\ gen.i = Start + 2 * Step


\* The indices of Rest, after its first n elements, whose element satisfies
\* the predicate.
Satisfying(n) == {k \in n + 1..Len(Rest) : P(pred, Rest[k])}

\* C23: a consuming operation works on the elements not yet pulled and
\* never rewinds: count() after k pulls on n elements returns n - k and a
\* second count() returns 0; find(p) returns the first remaining element
\* satisfying p and a second find(p) the second one, or null when there is
\* none.
C23_NeverRewinds ==
    /\ ret.op = "count" =>
          /\ ret.value = Len(src) - ret.pos0
          /\ heap.pos = Len(src)
          /\ count(1, heap).value = 0
    /\ ret.op = "find" =>
          /\ ret.value = IF Satisfying(0) = {} THEN Null
                         ELSE Rest[Min(Satisfying(0))]
          /\ find(1, heap, pred).value =
                IF Cardinality(Satisfying(0)) < 2 THEN Null
                ELSE Rest[Min(Satisfying(Min(Satisfying(0))))]

C23_Witness ==
    /\ ret.op = "count" /\ ret.pos0 = 1 /\ Len(src) = MaxLen
    /\ ret.value = MaxLen - 1 /\ count(1, heap).value = 0


RECURSIVE FoldedLeft(_, _)

\* s[1] combined with s[2], the result with s[3], and so on up to s[n], by
\* the function fold1 is called with.
FoldedLeft(s, n) ==
    IF n = 1 THEN s[1]
    ELSE 2 * ToNumber(FoldedLeft(s, n - 1)) + ToNumber(s[n])

\* C24: fold1(f) returns null when no element remains; otherwise the first
\* element pulled is the seed and the rest are folded left to right: f is
\* invoked once per further element, n - 1 times on n elements, each time
\* with the result so far and the next element, and not at all on a
\* one-element sequence, whose element is returned.
C24_Fold1 ==
    ret.op = "fold1" =>
        /\ heap.pos = Len(src)
        /\ IF Rest = <<>>
           THEN ret.value = Null /\ ret.calls = <<>>
           ELSE /\ Len(ret.calls) = Len(Rest) - 1
                /\ ret.value = FoldedLeft(Rest, Len(Rest))
                /\ \A k \in 1..Len(ret.calls) :
                      ret.calls[k] = <<FoldedLeft(Rest, k), Rest[k + 1]>>
                /\ Len(Rest) = 1 => ret.value = Rest[1] /\ ret.calls = <<>>

C24_Witness ==
    /\ ret.op = "fold1" /\ ret.pos0 = 0 /\ src = <<MaxVal, Null, MaxVal>>
    /\ Len(ret.calls) = 2 /\ ret.value = 5 * MaxVal


\* C25: a wrapper derived by filter, filterMap, map or enumerate keeps
\* idempotent exhaustion: once a pull on it has reported done, every later
\* pull on it reports done and yields nothing, whatever the source holds,
\* null included, and whatever the predicate.
C25_DerivedStaysEnded ==
    (ret.op = "next" /\ ret.ended0
        /\ heap.iters[ret.w].kind \in {"filter", "filterMap", "map", "enumerate"}) =>
        ret.done


\* The yields of wrapper w, in the order they were made.
YieldsOf(w) == SelectSeq(log.got, LAMBDA y : y[1] = w)

\* The element the k-th yield handed out: the value the array's wrapper
\* yielded, the second of the pair an enumerate wrapper yielded.
Handed(k) ==
    IF log.got[k][1] = 1 THEN log.got[k][2] ELSE Snd(log.got[k][2])

\* C26: the index of enumerate() is local to each derived wrapper: with two
\* enumerate() wrappers and direct next() calls pulled in any interleaving
\* over one parent, the j-th pair a wrapper yields carries j - 1 whatever
\* the element's position in the parent, and the elements are handed out in
\* pull order, each to exactly one consumer.
C26_EnumerateLocalIndex ==
    /\ \A w \in {2, 3} : \A j \in 1..Len(YieldsOf(w)) :
          Fst(YieldsOf(w)[j][2]) = j - 1
    /\ Len(log.got) = heap.pos
    /\ \A k \in 1..Len(log.got) : Handed(k) = src[k]

C26_Witness ==
    /\ Len(log.got) = 3
    /\ log.got[1][1] = 2 /\ log.got[2][1] = 3 /\ log.got[3][1] = 2
    /\ log.got[3][2] = Pair(1, src[3]) /\ log.got[2][2] = Pair(0, src[2])


\* The array the wrapper handed to the last call is over, and what of it
\* was not yet pulled when the call was made.
OtherArray == heap.iters[ret.other].arg.a

OtherRest == SubSeq(OtherArray, ret.other0 + 1, Len(OtherArray))

\* The number of next() calls the last call made on wrapper w.
Pulls(w) == Cardinality(Events("next", w))

\* n advanced by k and stopped at the length len.
Advanced(n, k, len) == IF n + k < len THEN n + k ELSE len

\* The result n of a pull is the k-th element of s, or done when s has none.
Yields(n, s, k) ==
    IF k > Len(s) THEN n.done ELSE ~n.done /\ n.value = s[k]

\* C27: when cmpBy, eqBy or partialCmpBy returns, this and other have been
\* pulled the same number of times, a round pulling both before any end is
\* looked at: every compared pair is a pair of elements pulled in one round,
\* and when this ends first while other has more elements, the element of
\* other pulled in the last round was compared with nothing and is gone, the
\* next pull on other yielding the one after it.
C27_PulledInStep ==
    ret.op \in {"cmpBy", "eqBy", "partialCmpBy"} =>
        /\ Pulls(ret.w) = Pulls(ret.other)
        /\ Pulls(ret.w) \in {Len(ret.calls), Len(ret.calls) + 1}
        /\ \A k \in 1..Len(ret.calls) : ret.calls[k] = <<Rest[k], OtherRest[k]>>
        /\ heap.pos = Advanced(ret.pos0, Pulls(ret.w), Len(src))
        /\ CursorAt(heap, ret.other) =
              Advanced(ret.other0, Pulls(ret.other), Len(OtherArray))
        /\ (Len(Rest) < Len(OtherRest) /\ Pulls(ret.w) = Len(Rest) + 1) =>
              /\ Len(ret.calls) = Len(Rest)
              /\ CursorAt(heap, ret.other) = ret.other0 + Len(Rest) + 1
              /\ Yields(next(ret.other, heap), OtherRest, Len(Rest) + 2)
              /\ ret.op = "cmpBy" => ret.value = -1
              /\ ret.op = "partialCmpBy" => ret.value = -1
              /\ ret.op = "eqBy" => ret.value = FALSE

C27_Witness ==
    /\ ret.op = "cmpBy" /\ ret.value = -1
    /\ Len(Rest) = 1 /\ Len(OtherRest) = 2 /\ Len(ret.calls) = 1
    /\ Pulls(1) = 2 /\ Pulls(2) = 2
    /\ CursorAt(heap, 2) = Len(OtherArray) /\ next(2, heap).done


\* Whether the function the last call compared with finds lhs and rhs equal.
Same(lhs, rhs) ==
    CASE ret.op = "cmpBy" -> Compare([kind |-> "rank", high |-> pred], lhs, rhs) = 0
      [] ret.op = "cmp" -> Compare([kind |-> "strict"], lhs, rhs) = 0
      [] ret.op = "eqBy" -> Equal([kind |-> "rank", high |-> pred], lhs, rhs)
      [] ret.op = "eq" -> Equal([kind |-> "strict"], lhs, rhs)

\* The pairs (x0, x1), (x2, x3), ... of the remaining elements that are
\* not found equal.
Unequal == {k \in 1..(Len(Rest) \div 2) : ~Same(Rest[2 * k - 1], Rest[2 * k])}

\* C28: when cmpBy, cmp, eqBy or eq is handed the wrapper itself, or a
\* wrapper over the same cursor, no second cursor is made: the pulls of
\* this and of other alternate on the one cursor, the function is applied
\* to (x0, x1), (x2, x3), ... up to the first pair it finds unequal, and
\* with every pair equal and an odd number of elements remaining eq and
\* eqBy return false, cmp and cmpBy 1.
C28_SelfComparison ==
    ret.op \in {"cmpBy", "cmp", "eqBy", "eq"} =>
        /\ Pulls(1) = 2 * Pulls(Len(heap.iters) + 1)
        /\ heap.pos = Advanced(ret.pos0, Pulls(1), Len(src))
        /\ \A k \in 1..Len(ret.calls) :
              ret.calls[k] = <<Rest[2 * k - 1], Rest[2 * k]>>
        /\ Len(ret.calls) = IF Unequal = {} THEN Len(Rest) \div 2 ELSE Min(Unequal)
        /\ (Unequal = {} /\ Len(Rest) % 2 = 1) =>
              /\ ret.op \in {"eq", "eqBy"} => ret.value = FALSE
              /\ ret.op \in {"cmp", "cmpBy"} => ret.value = 1
        /\ (Unequal = {} /\ Len(Rest) % 2 = 0) =>
              /\ ret.op \in {"eq", "eqBy"} => ret.value = TRUE
              /\ ret.op \in {"cmp", "cmpBy"} => ret.value = 0

C28_Witness ==
    /\ ret.op = "eq" /\ ret.w = 1 /\ ret.other = 1 /\ ret.value = FALSE
    /\ Len(Rest) = 3 /\ Rest[1] = Rest[2] /\ ret.calls = <<<<Rest[1], Rest[2]>>>>
    /\ heap.pos = Len(src)


\* The invocations of the projection the last call made, in order, and the
\* wrapper map returned to it, which made them.
Projected == SelectSeq(heap.trace, LAMBDA ev : ev.e = "f")

Mapped == Len(heap.iters) + 1

\* What pulling element v through the mapped wrapper leaves in the trace:
\* its next(), the parent's next(), the invocation of the projection.
PullOf(v) ==
    <<[e |-> "next", w |-> Mapped, v |-> Undefined],
      [e |-> "next", w |-> ret.w, v |-> Undefined],
      [e |-> "f", w |-> Mapped, v |-> v]>>

RECURSIVE PullsOf(_, _)

\* The trace of the first n elements of s pulled through the mapped wrapper.
PullsOf(s, n) == IF n = 0 THEN <<>> ELSE PullsOf(s, n - 1) \o PullOf(s[n])

\* C30: maxByKey(f, cmp) and minByKey(f, cmp) invoke f once per element, in
\* pull order, when the element is pulled, and not on an empty sequence;
\* what is compared afterwards is the stored pair of the key and the
\* element, for the candidate kept from earlier rounds too, so f is not
\* invoked again for it.
C30_KeyOnce ==
    ret.op \in {"maxByKey", "minByKey"} =>
        /\ Len(Projected) = Len(Rest)
        /\ \A k \in 1..Len(Rest) :
              Projected[k] = [e |-> "f", w |-> Mapped, v |-> Rest[k]]
        /\ heap.trace = PullsOf(Rest, Len(Rest))
                           \o <<[e |-> "next", w |-> Mapped, v |-> Undefined],
                                [e |-> "next", w |-> ret.w, v |-> Undefined]>>
        /\ Rest = <<>> => Projected = <<>> /\ ret.calls = <<>>
        /\ Len(ret.calls) = IF Rest = <<>> THEN 0 ELSE Len(Rest) - 1
        /\ \A k \in 1..Len(ret.calls) :
              /\ ret.calls[k][2] = Pair(Key(k + 1), Rest[k + 1])
              /\ \E j \in 1..k : ret.calls[k][1] = Pair(Key(j), Rest[j])

C30_Witness ==
    /\ ret.op = "maxByKey" /\ Len(Rest) = 3 /\ Len(Projected) = 3
    /\ Key(1) # Rest[1] /\ ret.value = Rest[1]
    /\ ret.calls[1][1] = Pair(Key(1), Rest[1])
    /\ ret.calls[2][1] = Pair(Key(1), Rest[1])

====
